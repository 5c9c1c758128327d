----------------------------- MODULE DeviceState -----------------------------
(***************************************************************************)
(* DeviceState: Prepare and Unprepare of ResourceClaims against the        *)
(* checkpoint, the CDI spec files, the shared-memory directories and the   *)
(* vNPU manager, with the failure of every call that can fail and a crash  *)
(* and restart of the process between any two effects.                     *)
(* Source: cmd/ascend-dra-kubeletplugin/state.go and cdi.go.               *)
(*                                                                         *)
(* Calls hold the state lock from start to end and kubeletplugin runs them *)
(* one at a time, so at most one is under way: "step" says where it is.    *)
(* Core is the HAMivNPUCore feature gate.  In core mode devices are shared *)
(* and never cut; otherwise the vNPU manager cuts them into slices.        *)
(***************************************************************************)
EXTENDS VNPUSlices

CONSTANTS
  Claims,      \* UIDs of ResourceClaims
  Core,        \* the HAMivNPUCore gate
  Legacy,      \* claims prepared by a release before this one
  None,        \* no entry in a map, no file, no allocation
  Faults,      \* calls that may fail: see the actions
  MaxFaults,   \* bound: failures and crashes in one behaviour
  MaxTokens,   \* bound: lifetimes in one process
  MaxDevices,  \* bound: devices of one claim
  Configs      \* what can be wrong with a claim's configuration

Prepared == [devices : SUBSET Ids, supported : BOOLEAN]

Allocation == [devices : SUBSET Ids, template : Templates \cup {NoTemplate}, config : Configs]

ASSUME DeviceStateAssumption ==
  /\ IsFiniteSet(Claims) /\ None \notin Claims
  /\ None \notin Prepared /\ None \notin Allocation
  /\ None \notin [env : SUBSET (Ids \X Templates)]
  /\ Core \in BOOLEAN
  /\ Legacy \subseteq Claims
  /\ Core \/ \A a, b \in Legacy : a = b  \* each would hold the same whole cards
  /\ Faults \subseteq {"read", "mkdir", "spec", "checkpoint", "unspec", "rmdir", "crash",
                     "publish"}
  /\ MaxFaults \in Nat /\ MaxTokens \in Nat /\ MaxDevices \in Nat
  /\ "valid" \in Configs /\ Configs \subseteq {"valid", "unreadable", "rejected"}

VARIABLES
  checkpoint,  \* durable: the prepared claims of the checkpoint file
  cdi,         \* durable: the CDI spec file of a claim
  shm,         \* durable: claims with a shared-memory directory
  prepared,    \* DeviceState.prepared
  gen,         \* DeviceState.monitorGenerations, 0 for no entry
  nextGen,     \* DeviceState.nextClaimGeneration
  step,        \* where the call under way is, "idle" or "down"
  claim,       \* the claim of that call
  todo,        \* devices it still has to allocate or release
  done,        \* devices it has gone through
  reply,       \* the last call that returned, and whether it succeeded
  assigned,    \* scheduler: the allocation in a claim's status
  ending,      \* kubelet: claims it has begun to unprepare
  faults,      \* failures so far
  stray        \* for the properties: cards the manager lost track of, because a
               \* Prepare that failed left slices in use, or because the process
               \* restarted under prepared claims

files == <<checkpoint, cdi, shm>>
lifetimes == <<prepared, gen, nextGen>>
call == <<step, claim, todo, done, reply>>
outside == <<assigned, ending, stray>>
vars == <<files, lifetimes, call, outside, faults, sliceVars>>

Steps == {"idle", "down", "results", "configs", "spec", "checkpoint", "publish",
          "dropSpec", "rollback", "fail", "release", "unspec", "uncheckpoint",
          "forget", "rmdir"}

NoReply == [op |-> "none", claim |-> None, ok |-> TRUE]

-----------------------------------------------------------------------------
(* Helpers *)

Fail(f) == f \in Faults /\ faults < MaxFaults /\ faults' = faults + 1

Works == UNCHANGED faults

Goto(s) == step' = s /\ UNCHANGED reply

Return(op, c, ok) ==
  /\ step' = "idle"
  /\ reply' = [op |-> op, claim |-> c, ok |-> ok]
  /\ claim' = None /\ todo' = {} /\ done' = {}

(* setPreparedClaims: claims that left lose their token, claims that came  *)
(* get the next tokens, in the order in which the map is walked.           *)
SetPreparedClaimsAnew(claims) ==  \* mutant: every claim is taken for a new one
  LET new == {c \in Claims : claims[c] # None}
      gone == {c \in Claims : claims[c] = None /\ prepared[c] # None}
  IN /\ nextGen' = nextGen + Cardinality(new)
     /\ prepared' = claims
     /\ \E order \in [new -> nextGen + 1 .. nextGen + Cardinality(new)] :
          /\ \A c, d \in new : order[c] = order[d] => c = d
          /\ gen' = [c \in Claims |-> IF c \in gone THEN 0
                                      ELSE IF c \in new THEN order[c] ELSE gen[c]]

SetPreparedClaims(claims) ==
  LET new == {c \in Claims : claims[c] # None /\ prepared[c] = None}
      gone == {c \in Claims : claims[c] = None /\ prepared[c] # None}
  IN /\ nextGen' = nextGen + Cardinality(new)
     /\ prepared' = claims
     /\ \E order \in [new -> nextGen + 1 .. nextGen + Cardinality(new)] :
          /\ \A c, d \in new : order[c] = order[d] => c = d
          /\ gen' = [c \in Claims |-> IF c \in gone THEN 0
                                      ELSE IF c \in new THEN order[c] ELSE gen[c]]

(* The environment CreateClaimSpecFile writes: addVNPUEnvIfSlice names the *)
(* template of a slice, and only SliceID # 0 makes a name a slice.         *)
ClaimSpec(devices) ==
  [env |-> {<<s.id, s.template>> : s \in
     {t \in UNION {npus[c].allocated : c \in Cards} :
        t.id \in devices /\ t.id[2] # 0 /\ t.template # NoTemplate}}]

CardsOf(ids) == {id[1] : id \in ids}

(* Bound: the calls under way and their releases find room for new names.  *)
Room ==
  \A c \in Cards :
    npus[c].next + Cardinality(npus[c].allocated) + 2 * MaxDevices <= MaxIndex + 1

-----------------------------------------------------------------------------
(* Prepare *)

PrepareCannotRead(c) ==
  /\ step = "idle" /\ assigned[c] # None
  /\ Fail("read")
  /\ Return("prepare", c, FALSE)
  /\ UNCHANGED <<files, lifetimes, outside, sliceVars>>

(* The claim is in the checkpoint: the devices are returned as they are.   *)
(* The directory may be made and its mode still not be set ("mkdir").      *)
PrepareAgain(c) ==
  /\ step = "idle" /\ assigned[c] # None
  /\ checkpoint[c] # None
  /\ SetPreparedClaims(checkpoint)
  /\ \/ /\ ~ Core
        /\ Works /\ Return("prepare", c, TRUE) /\ UNCHANGED shm
     \/ /\ Core /\ ~ checkpoint[c].supported
        /\ Works /\ Return("prepare", c, FALSE) /\ UNCHANGED shm
     \/ /\ Core /\ checkpoint[c].supported
        /\ \/ Works /\ Return("prepare", c, TRUE) /\ shm' = shm \cup {c}
           \/ Fail("mkdir") /\ Return("prepare", c, FALSE) /\ shm' \in {shm, shm \cup {c}}
  /\ UNCHANGED <<checkpoint, cdi, outside, sliceVars>>

PrepareNew(c) ==
  /\ step = "idle" /\ assigned[c] # None
  /\ checkpoint[c] = None
  /\ nextGen < MaxTokens /\ Room
  /\ \/ /\ Works
        /\ shm' = IF Core THEN shm \cup {c} ELSE shm
        /\ claim' = c /\ todo' = assigned[c].devices /\ done' = {}
        /\ Goto(IF assigned[c].config = "unreadable" THEN "fail" ELSE "results")
     \/ /\ Core /\ Fail("mkdir")
        /\ Return("prepare", c, FALSE)
        /\ shm' \in {shm, shm \cup {c}}
  /\ UNCHANGED <<checkpoint, cdi, lifetimes, outside, sliceVars>>

(* One turn of the loop over the allocation results: a slice that cannot   *)
(* be allocated is only logged, a name that is not allocatable is an error.*)
PrepareResult(id) ==
  /\ step = "results" /\ id \in todo
  /\ \/ Core /\ UNCHANGED sliceVars
     \/ ~ Core /\ AllocateSlice(id, assigned[claim].template)
     \/ /\ ~ Core /\ ~ Allocates(id, assigned[claim].template)
        /\ UNCHANGED sliceVars
  /\ IF id \in DOMAIN allocatable
     THEN /\ todo' = todo \ {id} /\ done' = done \cup {id}
          /\ Goto(IF todo = {id} THEN "configs" ELSE "results")
          /\ UNCHANGED stray
     ELSE /\ UNCHANGED <<todo, done>> /\ Goto("fail")
          /\ stray' = IF Core THEN stray ELSE stray \cup CardsOf(done \cup {id})
  /\ UNCHANGED <<files, lifetimes, claim, assigned, ending, faults>>

(* Normalize, Validate and applyConfig of the matching configs.            *)
PrepareConfigs ==
  /\ step = "configs"
  /\ IF assigned[claim].config = "rejected"
     THEN /\ Goto("fail")
          /\ stray' = IF Core THEN stray ELSE stray \cup CardsOf(done)
     ELSE Goto("spec") /\ UNCHANGED stray
  /\ UNCHANGED <<files, lifetimes, claim, todo, done, assigned, ending, faults, sliceVars>>

PrepareSpec ==
  /\ step = "spec"
  /\ \/ /\ Works
        /\ cdi' = [cdi EXCEPT ![claim] = ClaimSpec(done)]
        /\ Goto("checkpoint") /\ UNCHANGED todo
     \/ /\ Fail("spec")
        /\ UNCHANGED cdi
        /\ Goto("rollback") /\ todo' = done
  /\ UNCHANGED <<checkpoint, shm, lifetimes, claim, done, outside, sliceVars>>

PrepareCheckpointSpec ==  \* mutant: the specs are stored for the devices
  /\ step = "checkpoint"
  /\ checkpoint' = [checkpoint EXCEPT ![claim] = [devices |-> cdi[claim].env, supported |-> TRUE]]
  /\ Goto("publish")
  /\ UNCHANGED <<cdi, shm, lifetimes, claim, todo, done, outside, faults, sliceVars>>

PrepareCheckpoint ==
  /\ step = "checkpoint"
  /\ \/ /\ Works
        /\ checkpoint' = [checkpoint EXCEPT ![claim] = [devices |-> done, supported |-> TRUE]]
        /\ Goto("publish")
     \/ /\ Fail("checkpoint")
        /\ UNCHANGED checkpoint
        /\ Goto("dropSpec")
  /\ UNCHANGED <<cdi, shm, lifetimes, claim, todo, done, outside, sliceVars>>

PreparePublishNoKeep ==  \* mutant: without keepLocalShmemDir = true
  /\ step = "publish"
  /\ SetPreparedClaims(checkpoint)
  /\ Return("prepare", claim, TRUE)
  /\ shm' = shm \ {claim}
  /\ UNCHANGED <<checkpoint, cdi, outside, faults, sliceVars>>

PreparePublish ==
  /\ step = "publish"
  /\ SetPreparedClaims(checkpoint)
  /\ Return("prepare", claim, TRUE)
  /\ UNCHANGED <<files, outside, faults, sliceVars>>

(* The rollback of a checkpoint that was not written.                      *)
DropSpec ==
  /\ step = "dropSpec"
  /\ \/ Works /\ cdi' = [cdi EXCEPT ![claim] = None]
     \/ Fail("unspec") /\ UNCHANGED cdi
  /\ todo' = done
  /\ Goto("rollback")
  /\ UNCHANGED <<checkpoint, shm, lifetimes, claim, done, outside, sliceVars>>

(* The deferred removal of the directory ignores its error.                *)
PrepareFails ==
  /\ step = "fail"
  /\ \/ Works /\ shm' = IF Core THEN shm \ {claim} ELSE shm
     \/ Core /\ Fail("rmdir") /\ UNCHANGED shm
  /\ Return("prepare", claim, FALSE)
  /\ UNCHANGED <<checkpoint, cdi, lifetimes, outside, sliceVars>>

-----------------------------------------------------------------------------
(* unprepareDevices: a slice that is not found is only logged.             *)

ReleaseDevice(id) ==
  /\ step \in {"rollback", "release"} /\ ~ Core /\ id \in todo
  /\ \/ ReleaseSlice(id)
     \/ ~ IsAllocated(id) /\ UNCHANGED sliceVars
  /\ todo' = todo \ {id}
  /\ UNCHANGED <<files, lifetimes, step, claim, done, reply, outside, faults>>

DevicesReleased ==
  /\ step \in {"rollback", "release"} /\ (Core \/ todo = {})
  /\ todo' = {}
  /\ Goto(IF step = "rollback" THEN "fail" ELSE "unspec")
  /\ UNCHANGED <<files, lifetimes, claim, done, outside, faults, sliceVars>>

-----------------------------------------------------------------------------
(* Unprepare *)

UnprepareCannotRead(c) ==
  /\ step = "idle"
  /\ Fail("read")
  /\ Return("unprepare", c, FALSE)
  /\ ending' = ending \cup {c}
  /\ UNCHANGED <<files, lifetimes, assigned, stray, sliceVars>>

UnprepareUnknownFails(c) ==  \* mutant: an unknown claim is an error
  /\ step = "idle"
  /\ checkpoint[c] = None
  /\ SetPreparedClaims(checkpoint)
  /\ Works
  /\ Return("unprepare", c, FALSE)
  /\ ending' = ending \cup {c}
  /\ UNCHANGED <<files, assigned, stray, sliceVars>>

UnprepareUnknown(c) ==
  /\ step = "idle"
  /\ checkpoint[c] = None
  /\ SetPreparedClaims(checkpoint)
  /\ \/ /\ Works
        /\ shm' = IF Core THEN shm \ {c} ELSE shm
        /\ Return("unprepare", c, TRUE)
        /\ ending' = ending \ {c}
     \/ /\ Core /\ Fail("rmdir")
        /\ UNCHANGED shm
        /\ Return("unprepare", c, FALSE)
        /\ ending' = ending \cup {c}
  /\ UNCHANGED <<checkpoint, cdi, assigned, stray, sliceVars>>

UnprepareKnown(c) ==
  /\ step = "idle"
  /\ checkpoint[c] # None
  /\ claim' = c /\ todo' = checkpoint[c].devices /\ done' = {}
  /\ Goto("release")
  /\ ending' = ending \cup {c}
  /\ UNCHANGED <<files, lifetimes, assigned, stray, faults, sliceVars>>

UnprepareSpec ==
  /\ step = "unspec"
  /\ \/ /\ Works
        /\ cdi' = [cdi EXCEPT ![claim] = None]
        /\ Goto("uncheckpoint") /\ UNCHANGED <<claim, todo, done>>
     \/ /\ Fail("unspec")
        /\ Return("unprepare", claim, FALSE) /\ UNCHANGED cdi
  /\ UNCHANGED <<checkpoint, shm, lifetimes, outside, sliceVars>>

UnprepareCheckpoint ==
  /\ step = "uncheckpoint"
  /\ \/ /\ Works
        /\ checkpoint' = [checkpoint EXCEPT ![claim] = None]
        /\ Goto("forget") /\ UNCHANGED <<claim, todo, done>>
     \/ /\ Fail("checkpoint")
        /\ Return("unprepare", claim, FALSE) /\ UNCHANGED checkpoint
  /\ UNCHANGED <<cdi, shm, lifetimes, outside, sliceVars>>

UnprepareForgetsNot ==  \* mutant: without setPreparedClaims
  /\ step = "forget"
  /\ Return("unprepare", claim, TRUE) /\ ending' = ending \ {claim}
  /\ UNCHANGED <<files, lifetimes, assigned, stray, faults, sliceVars>>

UnprepareForget ==
  /\ step = "forget"
  /\ SetPreparedClaims(checkpoint)
  /\ IF Core
     THEN Goto("rmdir") /\ UNCHANGED <<claim, todo, done, ending>>
     ELSE Return("unprepare", claim, TRUE) /\ ending' = ending \ {claim}
  /\ UNCHANGED <<files, assigned, stray, faults, sliceVars>>

UnprepareDir ==
  /\ step = "rmdir"
  /\ \/ /\ Works /\ shm' = shm \ {claim}
        /\ Return("unprepare", claim, TRUE) /\ ending' = ending \ {claim}
     \/ /\ Fail("rmdir") /\ UNCHANGED shm
        /\ Return("unprepare", claim, FALSE) /\ UNCHANGED ending
  /\ UNCHANGED <<checkpoint, cdi, lifetimes, assigned, stray, sliceVars>>

-----------------------------------------------------------------------------
(* Crash, and NewDeviceState: what was in memory is gone.  The prepared    *)
(* claims come back from the checkpoint; the vNPU manager starts anew with *)
(* whole cards and a full template table.                                  *)

FreshMemory ==
  /\ prepared' = [c \in Claims |-> None]
  /\ gen' = [c \in Claims |-> 0]
  /\ nextGen' = 0
  /\ npus' = [c \in Cards |-> NewPhysicalNPU(c)]
  /\ allocatable' = [id \in {<<c, 0>> : c \in Cards} |-> Templates]

Crash ==
  /\ step # "down"
  /\ Fail("crash")
  /\ step' = "down" /\ claim' = None /\ todo' = {} /\ done' = {}
  /\ reply' = NoReply
  /\ FreshMemory
  /\ UNCHANGED <<files, outside>>

NewDeviceState ==
  /\ step = "down"
  /\ SetPreparedClaims(checkpoint)
  /\ Goto("idle")
  /\ stray' = IF Core THEN stray
              ELSE CardsOf(UNION {checkpoint[c].devices : c \in {d \in Claims : checkpoint[d] # None}})
  /\ UNCHANGED <<files, claim, todo, done, assigned, ending, faults, sliceVars>>

-----------------------------------------------------------------------------
(* syncAllocatable takes the lock between calls; in core mode it keeps all.*)
SyncAllocatable ==
  /\ step = "idle" /\ ~ Core
  /\ PruneAllocatable
  /\ UNCHANGED <<files, lifetimes, call, outside, faults>>

(* The device classes of traditional mode: one for the whole card, of type *)
(* "NPU"; one per template for its memory, and one for its AICORE.         *)
RequestableAnyName(devices, id, t) ==  \* mutant: the class of the whole card selects all
  IF t = NoTemplate
  THEN TRUE
  ELSE \/ \E u \in devices[id] : Memory[u] >= Memory[t]
       \/ \E u \in devices[id] : AICore[u] >= AICore[t]

Requestable(devices, id, t) ==
  IF t = NoTemplate
  THEN id[2] = 0
  ELSE \/ \E u \in devices[id] : Memory[u] >= Memory[t]
       \/ \E u \in devices[id] : AICore[u] >= AICore[t]

(* The scheduler allocates devices that are offered to it.  In traditional *)
(* mode a device goes to one claim at a time; in core mode devices allow   *)
(* multiple allocations.                                                   *)
Schedule(c, offered) ==
  /\ assigned[c] = None /\ checkpoint[c] = None
  /\ \E D \in SUBSET DOMAIN offered, t \in Templates \cup {NoTemplate}, cfg \in Configs :
       /\ D # {} /\ Cardinality(D) <= MaxDevices
       /\ Core => t = NoTemplate
       /\ ~ Core => \A id \in D :
            /\ Requestable(offered, id, t)
            /\ \A d \in Claims : assigned[d] # None => id \notin assigned[d].devices
       /\ assigned' = [assigned EXCEPT ![c] = [devices |-> D, template |-> t, config |-> cfg]]
  /\ UNCHANGED <<files, lifetimes, call, ending, stray, faults, sliceVars>>

(* A claim is deallocated once kubelet is done with it.                    *)
Deallocate(c) ==
  /\ step = "idle"
  /\ assigned[c] # None /\ checkpoint[c] = None /\ c \notin ending
  /\ assigned' = [assigned EXCEPT ![c] = None]
  /\ UNCHANGED <<files, lifetimes, call, ending, stray, faults, sliceVars>>

-----------------------------------------------------------------------------
(* A claim of an older release: prepared, allocated, its edits unsupported.*)
LegacyPrepared == [devices |-> {<<c, 0>> : c \in Cards}, supported |-> FALSE]

StateInit ==
  /\ Init
  /\ checkpoint = [c \in Claims |-> IF c \in Legacy THEN LegacyPrepared ELSE None]
  /\ cdi = [c \in Claims |-> IF c \in Legacy THEN [env |-> {}] ELSE None]
  /\ shm \in SUBSET Legacy
  /\ prepared = [c \in Claims |-> None]
  /\ gen = [c \in Claims |-> 0]
  /\ nextGen = 0
  /\ step = "down" /\ claim = None /\ todo = {} /\ done = {}
  /\ reply = NoReply
  /\ assigned = [c \in Claims |->
                   IF c \in Legacy
                   THEN [devices |-> LegacyPrepared.devices, template |-> NoTemplate,
                         config |-> "valid"]
                   ELSE None]
  /\ ending = {} /\ stray = {}
  /\ faults = 0

Prepare(c) == PrepareCannotRead(c) \/ PrepareAgain(c) \/ PrepareNew(c)

Unprepare(c) == UnprepareCannotRead(c) \/ UnprepareUnknown(c) \/ UnprepareKnown(c)

(* The rest of the call under way. *)
Continue ==
  \/ \E id \in todo : PrepareResult(id) \/ ReleaseDevice(id)
  \/ PrepareConfigs \/ PrepareSpec \/ PrepareCheckpoint \/ PreparePublish
  \/ DropSpec \/ PrepareFails
  \/ DevicesReleased
  \/ UnprepareSpec \/ UnprepareCheckpoint \/ UnprepareForget \/ UnprepareDir

StateNext ==
  \/ \E c \in Claims : Prepare(c) \/ Unprepare(c)
  \/ Continue
  \/ Crash \/ NewDeviceState
  \/ SyncAllocatable
  \/ \E c \in Claims : Schedule(c, allocatable) \/ Deallocate(c)

StateSpec == StateInit /\ [][StateNext]_vars

(* The process is restarted, a call that started goes on, and kubelet      *)
(* repeats an Unprepare until it succeeds; it may be overtaken by other    *)
(* calls but not for ever.                                                 *)
FairStateSpec ==
  /\ StateSpec
  /\ WF_vars(NewDeviceState)
  /\ WF_vars(Continue)
  /\ \A c \in Claims : SF_vars(c \in ending /\ Unprepare(c))

-----------------------------------------------------------------------------
(* Properties *)

(* The types of the state, of the files and of the call under way.         *)
StateTypeOK ==
  /\ TypeOK
  /\ \A c \in Claims :
       /\ checkpoint[c] \in {None} \/ checkpoint[c] \in Prepared
       /\ prepared[c] \in {None} \/ prepared[c] \in Prepared
       /\ cdi[c] \in {None} \/ cdi[c] \in [env : SUBSET (Ids \X Templates)]
       /\ assigned[c] \in {None} \/ assigned[c] \in Allocation
  /\ shm \subseteq Claims /\ ending \subseteq Claims /\ stray \subseteq Cards
  /\ gen \in [Claims -> Nat] /\ nextGen \in Nat /\ faults \in Nat
  /\ step \in Steps /\ claim \in Claims \cup {None}
  /\ todo \subseteq Ids /\ done \subseteq Ids

(* A claim has a token exactly while it is prepared in memory, and memory  *)
(* and checkpoint disagree only about the claim whose checkpoint entry the *)
(* call under way has just written or removed, whatever failed before.     *)
TokensFollowCheckpoint ==
  /\ \A c \in Claims : gen[c] # 0 <=> prepared[c] # None
  /\ \A c \in Claims : prepared[c] # checkpoint[c] =>
       \/ step = "down"
       \/ step \in {"publish", "forget"} /\ c = claim

(* What the checkpoint calls prepared can be used by a container: the CDI  *)
(* spec is there unless an Unprepare has begun, and so is the directory    *)
(* that a claim of this release mounts, after every failure and crash.     *)
PreparedHasFiles ==
  \A c \in Claims : checkpoint[c] # None =>
    /\ cdi[c] # None \/ c \in ending
    /\ Core /\ checkpoint[c].supported => c \in shm

(* The version tokens implement ClaimLifetimes: retries and failures keep  *)
(* a token, Unprepare ends only that claim's, and none is given out twice. *)
Lifetimes == INSTANCE ClaimLifetimes WITH token <- gen, last <- nextGen

TokensAreLifetimes == Lifetimes!Spec

(* While the process runs, the vNPU specs given to a container stay those  *)
(* of slices the manager holds in use, until the claim is unprepared.      *)
SpecMatchesSlice ==
  \A c \in Claims : checkpoint[c] # None /\ c \notin ending =>
    \A e \in cdi[c].env :
      \E d \in Cards : \E s \in npus[d].allocated : s.id = e[1] /\ s.template = e[2]

(* A claim that kubelet begins to unprepare is unprepared in the end: the  *)
(* failures of a half done Unprepare do not stop its repetition.           *)
UnprepareCompletes == \A c \in Claims : c \in ending ~> c \notin ending

(* The devices of a prepared claim are in use in the vNPU manager.         *)
PreparedSlicesInUse ==
  \A c \in Claims : step = "idle" /\ ~ Core /\ checkpoint[c] # None /\ c \notin ending =>
    \A id \in checkpoint[c].devices : IsAllocated(id)
=============================================================================
