-------------------------- MODULE DeviceStateProofs --------------------------
(***************************************************************************)
(* What holds of Prepare and Unprepare for any claims, cards, templates    *)
(* and failures, in both modes of the gate: the types, the version tokens  *)
(* and the files of the claims that are prepared, and that the tokens      *)
(* implement ClaimLifetimes.                                               *)
(***************************************************************************)
EXTENDS DeviceState, VNPUSlicesProofs

-----------------------------------------------------------------------------
(* The invariant: what is known of the claim of the call under way         *)
(* (CallInv), of what is in memory (MemoryInv) and of the files.           *)

BeforeCheckpoint == {"results", "configs", "spec", "checkpoint"}

Preparing == BeforeCheckpoint \cup {"dropSpec", "rollback", "fail"}

Unpreparing == {"release", "unspec", "uncheckpoint", "forget", "rmdir"}

CallInv ==
  /\ step \notin {"idle", "down"} => claim \in Claims
  /\ step \in Preparing => assigned[claim] # None /\ checkpoint[claim] = None
  /\ step \in BeforeCheckpoint /\ Core => claim \in shm
  /\ step = "checkpoint" => cdi[claim] # None
  /\ step \in Unpreparing => claim \in ending
  /\ step \in {"forget", "rmdir"} => checkpoint[claim] = None

MemoryInv ==
  /\ TokensFollowCheckpoint
  /\ step = "down" => nextGen = 0 /\ \A c \in Claims : prepared[c] = None

Maps ==
  /\ DOMAIN checkpoint = Claims /\ DOMAIN cdi = Claims /\ DOMAIN prepared = Claims
  /\ DOMAIN assigned = Claims

StateInv == Maps /\ StateTypeOK /\ CallInv /\ MemoryInv /\ PreparedHasFiles

-----------------------------------------------------------------------------
(* Lemmas about the helpers *)

(* What a call does to the manager is a step of the manager.               *)
SliceStep ==
  \/ UNCHANGED sliceVars
  \/ \E id, t : t \in Templates \cup {NoTemplate} /\ AllocateSlice(id, t)
  \/ \E id : ReleaseSlice(id)
  \/ PruneAllocatable

LEMMA NameListed ==
  ASSUME NEW c \in Cards, NEW s \in npus[c].available \cup npus[c].allocated
  PROVE  s.id \in SliceIds
<1>1. s \in UNION {Slices(npus[d]) : d \in Cards}
  BY DEF Slices
<1> QED BY <1>1 DEF SliceIds

LEMMA SliceStepIsNext == SliceStep => [Next]_sliceVars
<1>1. ASSUME NEW id, NEW t, AllocateSlice(id, t) PROVE id \in SliceIds
  BY <1>1, NameListed DEF AllocateSlice, AllocateFullCard, AllocateSliceByTemplate
<1>2. ASSUME NEW id, ReleaseSlice(id) PROVE id \in SliceIds
  BY <1>2, NameListed DEF ReleaseSlice, ReleaseFullCard, ReleaseLastSlice, ReleaseOneOfMany
<1> QED BY <1>1, <1>2 DEF SliceStep, Next

LEMMA SlicesKeepTypes == TypeOK /\ (SliceStep \/ FreshMemory) => TypeOK'
<1>1. TypeOK /\ SliceStep => TypeOK'
  BY SliceStepIsNext, TypeStep
<1>2. FreshMemory => TypeOK'
  <2>1. {<<c, 0>> : c \in Cards} \subseteq Ids
    BY DEF Ids
  <2>2. FreshMemory => npus' \in [Cards -> PhysicalNPU]
    BY SliceTypes DEF FreshMemory
  <2>3. FreshMemory => IsAllocatableMap(allocatable')
    BY <2>1 DEF FreshMemory, IsAllocatableMap
  <2> QED BY <2>2, <2>3 DEF TypeOK, IsAllocatableMap
<1> QED BY <1>1, <1>2

LEMMA SpecTyped ==
  ASSUME TypeOK, NEW D
  PROVE  ClaimSpec(D) \in [env : SUBSET (Ids \X Templates)] /\ ClaimSpec(D) # None
<1>1. \A t \in UNION {npus[c].allocated : c \in Cards} :
        t.id \in Ids /\ t.template \in Templates \cup {NoTemplate}
  BY DEF TypeOK, PhysicalNPU, Slice
<1>2. ClaimSpec(D) \in [env : SUBSET (Ids \X Templates)]
  BY <1>1 DEF ClaimSpec
<1> QED BY <1>2, DeviceStateAssumption

Arrived == {c \in Claims : checkpoint[c] # None /\ prepared[c] = None}

Left == {c \in Claims : checkpoint[c] = None /\ prepared[c] # None}

(* The tokens handed out are new, one for each claim that came.            *)
LEMMA TokensHandedOut ==
  ASSUME SetPreparedClaims(checkpoint), gen \in [Claims -> Nat], nextGen \in Nat
  PROVE  /\ prepared' = checkpoint /\ nextGen' \in Nat /\ nextGen' >= nextGen
         /\ gen' \in [Claims -> Nat]
         /\ \A c \in Claims \ (Arrived \cup Left) : gen'[c] = gen[c]
         /\ \A c \in Left : gen'[c] = 0
         /\ \A c \in Arrived : gen'[c] > nextGen /\ gen'[c] <= nextGen'
         /\ \A c, d \in Arrived : gen'[c] = gen'[d] => c = d
         /\ Arrived = {} => nextGen' = nextGen
<1>1. IsFiniteSet(Arrived) /\ Cardinality(Arrived) \in Nat
  BY DeviceStateAssumption, FS_Subset, FS_CardinalityType DEF Arrived
<1>2. Arrived = {} => Cardinality(Arrived) = 0
  BY FS_EmptySet
<1>3. /\ prepared' = checkpoint /\ nextGen' = nextGen + Cardinality(Arrived)
      /\ \E order \in [Arrived -> nextGen + 1 .. nextGen + Cardinality(Arrived)] :
           /\ \A c, d \in Arrived : order[c] = order[d] => c = d
           /\ gen' = [c \in Claims |-> IF c \in Left THEN 0
                                       ELSE IF c \in Arrived THEN order[c] ELSE gen[c]]
  BY DEF SetPreparedClaims, Arrived, Left
<1>4. PICK order \in [Arrived -> nextGen + 1 .. nextGen + Cardinality(Arrived)] :
           /\ \A c, d \in Arrived : order[c] = order[d] => c = d
           /\ gen' = [c \in Claims |-> IF c \in Left THEN 0
                                       ELSE IF c \in Arrived THEN order[c] ELSE gen[c]]
  BY <1>3
<1>5. Arrived \subseteq Claims /\ Left \subseteq Claims /\ Arrived \cap Left = {}
  BY DEF Arrived, Left
<1>6. \A c \in Arrived : gen'[c] = order[c] /\ order[c] \in nextGen + 1 .. nextGen + Cardinality(Arrived)
  BY <1>4, <1>5
<1>7. gen' \in [Claims -> Nat]
  BY <1>1, <1>4, <1>5
<1> QED BY <1>1, <1>2, <1>3, <1>4, <1>5, <1>6, <1>7

-----------------------------------------------------------------------------
(* Every action but Crash and NewDeviceState, in the order of the module;  *)
(* the scheduler may look at any list.                                     *)
Scheduled(c) == \E offered : IsAllocatableMap(offered) /\ Schedule(c, offered)

CallStep ==
  \/ \E c \in Claims : Prepare(c) \/ Unprepare(c) \/ Scheduled(c) \/ Deallocate(c)
  \/ Continue \/ SyncAllocatable

ProcessEnds ==
  /\ step' = "down" /\ claim' = None /\ todo' = {} /\ done' = {}
  /\ FreshMemory
  /\ faults' \in Nat
  /\ UNCHANGED <<files, outside>>

LEMMA StepKinds ==
  ASSUME StateTypeOK, StateNext
  PROVE  CallStep \/ NewDeviceState \/ (Crash /\ ProcessEnds)
<1>1. \A c \in Claims : Schedule(c, allocatable) => Scheduled(c)
  BY DEF Scheduled, StateTypeOK, TypeOK
<1>2. Crash => ProcessEnds
  BY DEF Crash, Fail, ProcessEnds, StateTypeOK
<1> QED BY <1>1, <1>2 DEF StateNext, CallStep

(* Calls step the manager, or leave it as it is.                           *)
LEMMA CallStepsSlices ==
  ASSUME StateInv, CallStep
  PROVE  SliceStep
<1>1. ASSUME NEW id \in todo, PrepareResult(id) PROVE SliceStep
  <2>1. assigned[claim].template \in Templates \cup {NoTemplate}
    BY <1>1 DEF PrepareResult, StateInv, CallInv, StateTypeOK, Allocation, Preparing,
                BeforeCheckpoint
  <2> QED BY <1>1, <2>1 DEF PrepareResult, SliceStep
<1>2. ASSUME NEW id \in todo, ReleaseDevice(id) PROVE SliceStep
  BY <1>2 DEF ReleaseDevice, SliceStep
<1>3. CASE SyncAllocatable
  BY <1>3 DEF SyncAllocatable, SliceStep
<1> QED
  BY <1>1, <1>2, <1>3
     DEF CallStep, Prepare, PrepareCannotRead, PrepareAgain, PrepareNew, Unprepare,
         UnprepareCannotRead, UnprepareUnknown, UnprepareKnown, Scheduled, Schedule, Deallocate, Continue,
         PrepareConfigs, PrepareSpec, PrepareCheckpoint, PreparePublish, DropSpec,
         PrepareFails, DevicesReleased, UnprepareSpec, UnprepareCheckpoint, UnprepareForget,
         UnprepareDir, SliceStep, vars

-----------------------------------------------------------------------------
(* The calls, one lemma for each part of the invariant *)

LEMMA MemoryStep ==
  ASSUME StateInv, CallStep
  PROVE  MemoryInv'
<1>1. /\ Maps /\ CallInv /\ MemoryInv /\ gen \in [Claims -> Nat] /\ nextGen \in Nat
  BY DEF StateInv, StateTypeOK
<1>2. ASSUME SetPreparedClaims(checkpoint), checkpoint' = checkpoint, step' # "down"
      PROVE  MemoryInv'
  BY <1>1, <1>2, TokensHandedOut DEF MemoryInv, TokensFollowCheckpoint, Arrived, Left
<1>3. ASSUME UNCHANGED lifetimes, checkpoint' = checkpoint, step' # "down",
             step \notin {"publish", "forget"}, step # "down"
      PROVE  MemoryInv'
  BY <1>1, <1>3 DEF MemoryInv, TokensFollowCheckpoint, lifetimes
<1>4. ASSUME NEW c \in Claims, Prepare(c) \/ Unprepare(c) PROVE MemoryInv'
  BY <1>2, <1>3, <1>4
     DEF Prepare, PrepareCannotRead, PrepareAgain, PrepareNew, Unprepare, UnprepareCannotRead,
         UnprepareUnknown, UnprepareKnown, files, Goto, Return
<1>5. CASE PrepareCheckpoint \/ UnprepareCheckpoint
  BY <1>1, <1>5
     DEF PrepareCheckpoint, UnprepareCheckpoint, Goto, Return, MemoryInv,
         TokensFollowCheckpoint, Maps, lifetimes
<1>6. CASE \/ \E id \in todo : PrepareResult(id) \/ ReleaseDevice(id)
           \/ PrepareConfigs \/ PrepareSpec \/ DropSpec \/ PrepareFails \/ DevicesReleased
           \/ UnprepareSpec \/ UnprepareDir
  BY <1>3, <1>6
     DEF PrepareResult, ReleaseDevice, PrepareConfigs, PrepareSpec, DropSpec, PrepareFails,
         DevicesReleased, UnprepareSpec, UnprepareDir, files, Goto, Return
<1>7. CASE PreparePublish \/ UnprepareForget
  BY <1>2, <1>7 DEF PreparePublish, UnprepareForget, files, Goto, Return
<1>8. CASE \/ SyncAllocatable
           \/ \E c \in Claims : Scheduled(c) \/ Deallocate(c)
  BY <1>1, <1>8
     DEF SyncAllocatable, Scheduled, Schedule, Deallocate, files, lifetimes, call, MemoryInv,
         TokensFollowCheckpoint
<1> QED BY <1>4, <1>5, <1>6, <1>7, <1>8 DEF CallStep, Continue

LEMMA CallInvStep ==
  ASSUME StateInv, CallStep
  PROVE  CallInv'
<1>1. Maps /\ CallInv /\ TypeOK
  BY DEF StateInv, StateTypeOK
<1>2. ASSUME NEW c \in Claims, Prepare(c) \/ Unprepare(c) PROVE CallInv'
  BY <1>1, <1>2
     DEF Prepare, PrepareCannotRead, PrepareAgain, PrepareNew, Unprepare, UnprepareCannotRead,
         UnprepareUnknown, UnprepareKnown, files, outside, Goto, Return, CallInv, Preparing,
         BeforeCheckpoint, Unpreparing
<1>3. CASE \E id \in todo : PrepareResult(id) \/ ReleaseDevice(id)
  BY <1>1, <1>3
     DEF PrepareResult, ReleaseDevice, files, outside, Goto, CallInv, Preparing,
         BeforeCheckpoint, Unpreparing
<1>4. CASE PrepareSpec
  <2>1. cdi'[claim] # None \/ step' # "checkpoint"
    BY <1>1, <1>4, SpecTyped DEF PrepareSpec, Goto, CallInv, Maps
  <2> QED BY <1>1, <1>4, <2>1
       DEF PrepareSpec, outside, Goto, CallInv, Preparing, BeforeCheckpoint, Unpreparing
<1>5. CASE PrepareConfigs \/ PrepareCheckpoint \/ PreparePublish \/ DropSpec \/ PrepareFails
           \/ DevicesReleased
  BY <1>1, <1>5
     DEF PrepareConfigs, PrepareCheckpoint, PreparePublish, DropSpec, PrepareFails,
         DevicesReleased, files, outside, Goto, Return, CallInv, Preparing, BeforeCheckpoint,
         Unpreparing
<1>6. CASE UnprepareSpec \/ UnprepareCheckpoint \/ UnprepareForget \/ UnprepareDir
  BY <1>1, <1>6
     DEF UnprepareSpec, UnprepareCheckpoint, UnprepareForget, UnprepareDir, files, outside,
         Goto, Return, CallInv, Preparing, BeforeCheckpoint, Unpreparing, Maps
<1>7. CASE \/ SyncAllocatable
           \/ \E c \in Claims : Scheduled(c) \/ Deallocate(c)
  BY <1>1, <1>7
     DEF SyncAllocatable, Scheduled, Schedule, Deallocate, files, call, outside, CallInv, Preparing,
         BeforeCheckpoint, Unpreparing, Maps
<1> QED BY <1>2, <1>3, <1>4, <1>5, <1>6, <1>7 DEF CallStep, Continue

LEMMA FilesStep ==
  ASSUME StateInv, CallStep
  PROVE  PreparedHasFiles'
<1>1. Maps /\ CallInv /\ PreparedHasFiles
  BY DEF StateInv
<1>2. ASSUME NEW c \in Claims, Prepare(c) \/ Unprepare(c) PROVE PreparedHasFiles'
  BY <1>1, <1>2
     DEF Prepare, PrepareCannotRead, PrepareAgain, PrepareNew, Unprepare, UnprepareCannotRead,
         UnprepareUnknown, UnprepareKnown, files, outside, PreparedHasFiles
<1>3. CASE PrepareCheckpoint
  BY <1>1, <1>3
     DEF PrepareCheckpoint, outside, PreparedHasFiles, CallInv, Preparing, BeforeCheckpoint, Maps
<1>4. CASE PrepareSpec \/ DropSpec \/ PrepareFails
  BY <1>1, <1>4
     DEF PrepareSpec, DropSpec, PrepareFails, outside, PreparedHasFiles, CallInv, Preparing,
         BeforeCheckpoint, Maps
<1>5. CASE UnprepareSpec
  BY <1>1, <1>5 DEF UnprepareSpec, outside, PreparedHasFiles, CallInv, Unpreparing, Maps
<1>6. CASE UnprepareCheckpoint
  BY <1>1, <1>6 DEF UnprepareCheckpoint, outside, PreparedHasFiles, Maps
<1>7. CASE UnprepareForget \/ UnprepareDir
  BY <1>1, <1>7
     DEF UnprepareForget, UnprepareDir, files, Goto, Return, PreparedHasFiles, CallInv
<1>8. CASE \/ \E id \in todo : PrepareResult(id) \/ ReleaseDevice(id)
           \/ PrepareConfigs \/ PreparePublish \/ DevicesReleased \/ SyncAllocatable
           \/ \E c \in Claims : Scheduled(c) \/ Deallocate(c)
  BY <1>1, <1>8
     DEF PrepareResult, ReleaseDevice, PrepareConfigs, PreparePublish, DevicesReleased,
         SyncAllocatable, Scheduled, Schedule, Deallocate, files, outside, PreparedHasFiles
<1> QED BY <1>2, <1>3, <1>4, <1>5, <1>6, <1>7, <1>8 DEF CallStep, Continue

(* The conjuncts of the type invariant without the manager's.              *)
FileTypes ==
  \A c \in Claims :
    /\ checkpoint[c] \in {None} \/ checkpoint[c] \in Prepared
    /\ cdi[c] \in {None} \/ cdi[c] \in [env : SUBSET (Ids \X Templates)]
    /\ assigned[c] \in {None} \/ assigned[c] \in Allocation

MemoryTypes ==
  /\ \A c \in Claims : prepared[c] \in {None} \/ prepared[c] \in Prepared
  /\ gen \in [Claims -> Nat] /\ nextGen \in Nat

CallTypes ==
  /\ shm \subseteq Claims /\ ending \subseteq Claims /\ stray \subseteq Cards
  /\ faults \in Nat /\ step \in Steps /\ claim \in Claims \cup {None}
  /\ todo \subseteq Ids /\ done \subseteq Ids

LEMMA TypeParts == StateTypeOK <=> TypeOK /\ FileTypes /\ MemoryTypes /\ CallTypes
  BY DEF StateTypeOK, FileTypes, MemoryTypes, CallTypes

LEMMA CardsOfNames == \A ids \in SUBSET Ids : CardsOf(ids) \subseteq Cards
  BY DEF CardsOf, Ids

LEMMA FileTypesStep ==
  ASSUME StateInv, CallStep
  PROVE  FileTypes' /\ DOMAIN checkpoint' = Claims /\ DOMAIN cdi' = Claims
         /\ DOMAIN assigned' = Claims
<1> DEFINE Goal == FileTypes' /\ DOMAIN checkpoint' = Claims /\ DOMAIN cdi' = Claims
                   /\ DOMAIN assigned' = Claims
<1>1. Maps /\ FileTypes /\ CallTypes /\ TypeOK
  BY TypeParts DEF StateInv
<1>2. ASSUME UNCHANGED <<checkpoint, cdi, assigned>> PROVE Goal
  BY <1>1, <1>2 DEF FileTypes, Maps
<1>3. ASSUME NEW c \in Claims, Prepare(c) \/ Unprepare(c) PROVE Goal
  BY <1>2, <1>3
     DEF Prepare, PrepareCannotRead, PrepareAgain, PrepareNew, Unprepare, UnprepareCannotRead,
         UnprepareUnknown, UnprepareKnown, files, outside
<1>4. CASE PrepareSpec \/ DropSpec \/ UnprepareSpec
  <2>1. \/ UNCHANGED cdi
        \/ \E new : new \in {None, ClaimSpec(done)} /\ cdi' = [cdi EXCEPT ![claim] = new]
    BY <1>4 DEF PrepareSpec, DropSpec, UnprepareSpec
  <2>2. checkpoint' = checkpoint /\ assigned' = assigned
    BY <1>4 DEF PrepareSpec, DropSpec, UnprepareSpec, outside
  <2> QED BY <1>1, <2>1, <2>2, SpecTyped DEF FileTypes, Maps
<1>5. CASE PrepareCheckpoint \/ UnprepareCheckpoint
  <2>1. \/ UNCHANGED checkpoint
        \/ \E new : new \in {None, [devices |-> done, supported |-> TRUE]}
                     /\ checkpoint' = [checkpoint EXCEPT ![claim] = new]
    BY <1>5 DEF PrepareCheckpoint, UnprepareCheckpoint
  <2>2. cdi' = cdi /\ assigned' = assigned
    BY <1>5 DEF PrepareCheckpoint, UnprepareCheckpoint, outside
  <2>3. [devices |-> done, supported |-> TRUE] \in Prepared
    BY <1>1 DEF CallTypes, Prepared
  <2> QED BY <1>1, <2>1, <2>2, <2>3 DEF FileTypes, Maps
<1>6. ASSUME NEW c \in Claims, Scheduled(c) PROVE Goal
  <2>1. PICK new \in Allocation : assigned' = [assigned EXCEPT ![c] = new]
    BY <1>6 DEF Scheduled, Schedule, Allocation, IsAllocatableMap
  <2>2. checkpoint' = checkpoint /\ cdi' = cdi
    BY <1>6 DEF Scheduled, Schedule, files
  <2> QED BY <1>1, <2>1, <2>2 DEF FileTypes, Maps
<1>7. ASSUME NEW c \in Claims, Deallocate(c) PROVE Goal
  BY <1>1, <1>7 DEF Deallocate, files, FileTypes, Maps
<1>8. CASE \/ \E id \in todo : PrepareResult(id) \/ ReleaseDevice(id)
           \/ PrepareConfigs \/ PreparePublish \/ PrepareFails \/ DevicesReleased
           \/ UnprepareForget \/ UnprepareDir \/ SyncAllocatable
  BY <1>2, <1>8
     DEF PrepareResult, ReleaseDevice, PrepareConfigs, PreparePublish, PrepareFails,
         DevicesReleased, UnprepareForget, UnprepareDir, SyncAllocatable, files, outside
<1> QED BY <1>3, <1>4, <1>5, <1>6, <1>7, <1>8 DEF CallStep, Continue

LEMMA MemoryTypesStep ==
  ASSUME StateInv, CallStep
  PROVE  MemoryTypes' /\ DOMAIN prepared' = Claims
<1>1. Maps /\ FileTypes /\ MemoryTypes
  BY TypeParts DEF StateInv
<1>2. ASSUME SetPreparedClaims(checkpoint) PROVE MemoryTypes' /\ DOMAIN prepared' = Claims
  BY <1>1, <1>2, TokensHandedOut DEF MemoryTypes, FileTypes, Maps
<1>3. ASSUME UNCHANGED lifetimes PROVE MemoryTypes' /\ DOMAIN prepared' = Claims
  BY <1>1, <1>3 DEF MemoryTypes, lifetimes, Maps
<1> QED
  BY <1>2, <1>3
     DEF CallStep, Continue, Prepare, PrepareCannotRead, PrepareAgain, PrepareNew, Unprepare,
         UnprepareCannotRead, UnprepareUnknown, UnprepareKnown, PrepareResult, ReleaseDevice,
         PrepareConfigs, PrepareSpec, PrepareCheckpoint, PreparePublish, DropSpec, PrepareFails,
         DevicesReleased, UnprepareSpec, UnprepareCheckpoint, UnprepareForget, UnprepareDir,
         SyncAllocatable, Scheduled, Schedule, Deallocate

LEMMA FaultsCounted ==
  ASSUME faults \in Nat, NEW f
  PROVE  (Fail(f) => faults' \in Nat) /\ (Works => faults' \in Nat)
  BY DEF Fail, Works

LEMMA CallTypesStep ==
  ASSUME StateInv, CallStep
  PROVE  CallTypes'
<1>1. /\ Maps /\ FileTypes /\ CallTypes /\ CallInv
      /\ \A f : (Fail(f) => faults' \in Nat) /\ (Works => faults' \in Nat)
  BY TypeParts, FaultsCounted DEF StateInv, CallTypes
<1>2. \A c \in Claims :
        /\ checkpoint[c] # None => checkpoint[c].devices \subseteq Ids
        /\ assigned[c] # None => assigned[c].devices \subseteq Ids
  BY <1>1 DEF FileTypes, Prepared, Allocation
<1>3. ASSUME NEW c \in Claims, Prepare(c) \/ Unprepare(c) PROVE CallTypes'
  BY <1>1, <1>2, <1>3
     DEF Prepare, PrepareCannotRead, PrepareAgain, PrepareNew, Unprepare, UnprepareCannotRead,
         UnprepareUnknown, UnprepareKnown, files, outside, Goto, Return, Steps, CallTypes
<1>4. ASSUME NEW id \in todo, PrepareResult(id) \/ ReleaseDevice(id) PROVE CallTypes'
  <2>1. done \cup {id} \subseteq Ids /\ CardsOf(done \cup {id}) \subseteq Cards
    BY <1>1, CardsOfNames DEF CallTypes
  <2> QED BY <1>1, <1>4, <2>1
     DEF PrepareResult, ReleaseDevice, files, outside, Goto, Steps, CallTypes
<1>5. CASE PrepareConfigs
  BY <1>1, <1>5, CardsOfNames DEF PrepareConfigs, files, Goto, Steps, CallTypes
<1>6. CASE PrepareSpec \/ PrepareCheckpoint \/ PreparePublish \/ DropSpec \/ PrepareFails
           \/ DevicesReleased
  BY <1>1, <1>6
     DEF PrepareSpec, PrepareCheckpoint, PreparePublish, DropSpec, PrepareFails,
         DevicesReleased, files, outside, Goto, Return, Steps, CallTypes
<1>7. CASE UnprepareSpec \/ UnprepareCheckpoint \/ UnprepareForget \/ UnprepareDir
  BY <1>1, <1>7
     DEF UnprepareSpec, UnprepareCheckpoint, UnprepareForget, UnprepareDir, files, outside,
         Goto, Return, Steps, CallTypes
<1>8. CASE \/ SyncAllocatable
           \/ \E c \in Claims : Scheduled(c) \/ Deallocate(c)
  BY <1>1, <1>8 DEF SyncAllocatable, Scheduled, Schedule, Deallocate, files, call, outside, CallTypes
<1> QED BY <1>3, <1>4, <1>5, <1>6, <1>7, <1>8 DEF CallStep, Continue

LEMMA CallStepInductive ==
  ASSUME StateInv, CallStep
  PROVE  StateInv'
<1>1. TypeOK'
  BY CallStepsSlices, SlicesKeepTypes DEF StateInv, StateTypeOK
<1>2. StateTypeOK' <=> TypeOK' /\ FileTypes' /\ MemoryTypes' /\ CallTypes'
  BY DEF StateTypeOK, FileTypes, MemoryTypes, CallTypes
<1> QED
  BY <1>1, <1>2, FileTypesStep, MemoryTypesStep, CallTypesStep, MemoryStep, CallInvStep,
     FilesStep DEF StateInv, Maps

-----------------------------------------------------------------------------
(* The process ends, and starts again                                      *)

LEMMA EndInductive ==
  ASSUME StateInv, ProcessEnds
  PROVE  StateInv'
<1>1. TypeOK' /\ faults' \in Nat
  BY SlicesKeepTypes DEF ProcessEnds, StateInv, StateTypeOK
<1>2. /\ UNCHANGED <<checkpoint, cdi, shm, assigned, ending, stray>>
      /\ step' = "down" /\ claim' = None /\ todo' = {} /\ done' = {}
      /\ prepared' = [c \in Claims |-> None] /\ gen' = [c \in Claims |-> 0] /\ nextGen' = 0
  BY DEF ProcessEnds, FreshMemory, files, outside
<1>3. StateTypeOK'
  BY <1>1, <1>2 DEF StateInv, StateTypeOK, Steps
<1>4. CallInv' /\ MemoryInv' /\ Maps'
  BY <1>2 DEF StateInv, CallInv, Preparing, BeforeCheckpoint, Unpreparing, MemoryInv,
              TokensFollowCheckpoint, Maps
<1>5. PreparedHasFiles'
  BY <1>2 DEF StateInv, PreparedHasFiles
<1> QED BY <1>3, <1>4, <1>5 DEF StateInv

LEMMA RestartInductive ==
  ASSUME StateInv, NewDeviceState
  PROVE  StateInv'
<1>1. /\ UNCHANGED <<checkpoint, cdi, shm, assigned, ending, faults, npus, allocatable,
                     claim, todo, done>>
      /\ step' = "idle" /\ SetPreparedClaims(checkpoint)
  BY DEF NewDeviceState, files, sliceVars, Goto
<1>2. Maps /\ TypeOK /\ FileTypes /\ MemoryTypes /\ CallTypes /\ MemoryInv
  BY TypeParts DEF StateInv
<1>3. MemoryTypes' /\ DOMAIN prepared' = Claims /\ MemoryInv'
  BY <1>1, <1>2, TokensHandedOut
     DEF MemoryTypes, FileTypes, Maps, MemoryInv, TokensFollowCheckpoint, Arrived, Left
<1>4. stray' \subseteq Cards
  <2>1. UNION {checkpoint[c].devices : c \in {d \in Claims : checkpoint[d] # None}} \subseteq Ids
    BY <1>2 DEF FileTypes, Prepared
  <2> QED BY <1>2, <2>1, CardsOfNames DEF NewDeviceState, CallTypes
<1>5. TypeOK' /\ FileTypes' /\ CallTypes'
  BY <1>1, <1>2, <1>4 DEF TypeOK, IsAllocatableMap, FileTypes, CallTypes, Steps
<1>6. StateTypeOK'
  BY <1>3, <1>5 DEF StateTypeOK, FileTypes, MemoryTypes, CallTypes
<1>7. CallInv' /\ Maps' /\ PreparedHasFiles'
  BY <1>1, <1>3 DEF StateInv, CallInv, Preparing, BeforeCheckpoint, Unpreparing, Maps,
                    PreparedHasFiles
<1> QED BY <1>3, <1>6, <1>7 DEF StateInv

LEMMA StateInitHolds == StateInit => StateInv
<1> SUFFICES ASSUME StateInit PROVE StateInv
  OBVIOUS
<1>1. TypeOK
  BY TypeInit DEF StateInit
<1>2. {<<c, 0>> : c \in Cards} \in SUBSET Ids /\ LegacyPrepared \in Prepared
  BY DEF Ids, LegacyPrepared, Prepared
<1>3. FileTypes
  <2>1. [devices |-> LegacyPrepared.devices, template |-> NoTemplate, config |-> "valid"]
          \in Allocation
    BY <1>2, DeviceStateAssumption DEF Allocation, LegacyPrepared
  <2>2. [env |-> {}] \in [env : SUBSET (Ids \X Templates)]
    OBVIOUS
  <2> QED BY <1>2, <2>1, <2>2 DEF StateInit, FileTypes
<1>4. MemoryTypes /\ CallTypes
  BY DeviceStateAssumption DEF StateInit, MemoryTypes, CallTypes, Steps
<1>5. CallInv /\ MemoryInv /\ Maps
  BY DEF StateInit, CallInv, Preparing, BeforeCheckpoint, Unpreparing, MemoryInv,
         TokensFollowCheckpoint, Maps
<1>6. PreparedHasFiles
  BY DeviceStateAssumption DEF StateInit, PreparedHasFiles, LegacyPrepared
<1> QED BY <1>1, <1>3, <1>4, <1>5, <1>6, TypeParts DEF StateInv

LEMMA StateInductive == StateInv /\ [StateNext]_vars => StateInv'
<1> SUFFICES ASSUME StateInv, [StateNext]_vars PROVE StateInv'
  OBVIOUS
<1>1. CASE UNCHANGED vars
  <2>1. Maps' /\ CallInv' /\ MemoryInv' /\ PreparedHasFiles'
    BY <1>1 DEF vars, files, lifetimes, call, outside, StateInv, Maps, CallInv, MemoryInv,
                TokensFollowCheckpoint, PreparedHasFiles
  <2>2. StateTypeOK'
    BY <1>1 DEF vars, files, lifetimes, call, outside, sliceVars, StateInv, StateTypeOK,
                TypeOK, IsAllocatableMap
  <2> QED BY <2>1, <2>2 DEF StateInv
<1> QED
  BY <1>1, StepKinds, CallStepInductive, EndInductive, RestartInductive DEF StateInv

LEMMA StateHolds == StateSpec => []StateInv
  BY StateInitHolds, StateInductive, PTL DEF StateSpec

(* The state, the files and the call under way keep their types.           *)
THEOREM StateTypes == StateSpec => []StateTypeOK
<1>1. StateInv => StateTypeOK
  BY DEF StateInv
<1> QED BY <1>1, StateHolds, PTL

(* A claim has a token exactly while it is prepared, and memory follows    *)
(* the checkpoint but for the claim whose entry has just been written.     *)
THEOREM TokensFollow == StateSpec => []TokensFollowCheckpoint
<1>1. StateInv => TokensFollowCheckpoint
  BY DEF StateInv, MemoryInv
<1> QED BY <1>1, StateHolds, PTL

(* What the checkpoint calls prepared has its files, after any failure.    *)
THEOREM PreparedKeepsFiles == StateSpec => []PreparedHasFiles
<1>1. StateInv => PreparedHasFiles
  BY DEF StateInv
<1> QED BY <1>1, StateHolds, PTL

-----------------------------------------------------------------------------
(* The refinement.  Memory disagrees with the checkpoint about the claim   *)
(* under way alone, so that a call begins or ends at most one lifetime; a  *)
(* restart begins those of the checkpoint, with no token handed out yet.   *)

LifetimeStep == [Lifetimes!Next]_(Lifetimes!lifetimeVars)

LEMMA TokensStep ==
  ASSUME StateInv, SetPreparedClaims(checkpoint), step # "down"
  PROVE  LifetimeStep
<1>1. /\ gen \in [Claims -> Nat] /\ nextGen \in Nat
      /\ \A c \in Claims : gen[c] # 0 <=> prepared[c] # None
      /\ \A c, d \in Arrived \cup Left : c = d
  BY DEF StateInv, StateTypeOK, MemoryInv, TokensFollowCheckpoint, Arrived, Left
<1>2. Arrived \subseteq Claims /\ Left \subseteq Claims /\ Arrived \cap Left = {}
  BY DEF Arrived, Left
<1>3. CASE Arrived \cup Left = {}
  <2>1. gen' = gen /\ nextGen' = nextGen
    BY <1>1, <1>3, TokensHandedOut
  <2> QED BY <2>1 DEF LifetimeStep, Lifetimes!lifetimeVars
<1>4. ASSUME NEW c \in Left PROVE LifetimeStep
  <2>1. Arrived = {} /\ Left = {c}
    BY <1>1, <1>2, <1>4
  <2>2. gen[c] # 0 /\ gen' = [gen EXCEPT ![c] = 0] /\ nextGen' = nextGen
    BY <1>1, <1>2, <2>1, TokensHandedOut DEF Left
  <2>3. Lifetimes!End(c)
    BY <2>2 DEF Lifetimes!End
  <2> QED BY <1>2, <1>4, <2>3 DEF LifetimeStep, Lifetimes!Next
<1>5. ASSUME NEW c \in Arrived PROVE LifetimeStep
  <2>1. Left = {} /\ Arrived = {c}
    BY <1>1, <1>2, <1>5
  <2>2. Lifetimes!Begin({c})
    <3>1. gen[c] = 0
      BY <1>1, <1>2, <1>5 DEF Arrived
    <3>2. gen'[c] > nextGen /\ gen'[c] <= nextGen'
      BY <1>1, <1>5, TokensHandedOut
    <3>3. \A d \in Claims \ {c} : gen'[d] = gen[d]
      BY <1>1, <2>1, TokensHandedOut
    <3> QED BY <3>1, <3>2, <3>3 DEF Lifetimes!Begin
  <2>3. {c} \in (SUBSET Claims) \ {{}}
    BY <1>2, <1>5
  <2> QED BY <2>2, <2>3 DEF LifetimeStep, Lifetimes!Next
<1> QED BY <1>3, <1>4, <1>5

LEMMA RestartTokens ==
  ASSUME StateInv, NewDeviceState
  PROVE  LifetimeStep
<1>1. /\ gen \in [Claims -> Nat] /\ nextGen \in Nat /\ SetPreparedClaims(checkpoint)
      /\ \A c \in Claims : gen[c] = 0 /\ prepared[c] = None
  BY DEF NewDeviceState, StateInv, StateTypeOK, MemoryInv, TokensFollowCheckpoint
<1>2. Left = {} /\ Arrived \in SUBSET Claims /\ \A c \in Arrived : gen[c] = 0
  BY <1>1 DEF Left, Arrived
<1>3. CASE Arrived = {}
  <2>1. gen' = gen /\ nextGen' = nextGen
    BY <1>1, <1>2, <1>3, TokensHandedOut
  <2> QED BY <2>1 DEF LifetimeStep, Lifetimes!lifetimeVars
<1>4. CASE Arrived # {}
  <2>1. Lifetimes!Begin(Arrived)
    <3>1. \A c \in Arrived : gen[c] = 0 /\ gen'[c] > nextGen /\ gen'[c] <= nextGen'
      BY <1>1, <1>2, TokensHandedOut
    <3>2. \A c, d \in Arrived : gen'[c] = gen'[d] => c = d
      BY <1>1, TokensHandedOut
    <3>3. \A c \in Claims \ Arrived : gen'[c] = gen[c]
      BY <1>1, <1>2, TokensHandedOut
    <3> QED BY <3>1, <3>2, <3>3 DEF Lifetimes!Begin
  <2> QED BY <1>2, <1>4, <2>1 DEF LifetimeStep, Lifetimes!Next
<1> QED BY <1>3, <1>4

LEMMA MovesTokens ==
  ASSUME StateInv, CallStep \/ NewDeviceState \/ ProcessEnds \/ UNCHANGED lifetimes
  PROVE  LifetimeStep
<1>1. ASSUME UNCHANGED lifetimes PROVE LifetimeStep
  BY <1>1 DEF lifetimes, LifetimeStep, Lifetimes!lifetimeVars
<1>2. CASE ProcessEnds
  BY <1>2 DEF ProcessEnds, FreshMemory, LifetimeStep, Lifetimes!Next, Lifetimes!Restart
<1>3. CASE CallStep
  <2>1. UNCHANGED lifetimes \/ (SetPreparedClaims(checkpoint) /\ step # "down")
    BY <1>3
       DEF CallStep, Continue, Prepare, PrepareCannotRead, PrepareAgain, PrepareNew, Unprepare,
           UnprepareCannotRead, UnprepareUnknown, UnprepareKnown, PrepareResult, ReleaseDevice,
           PrepareConfigs, PrepareSpec, PrepareCheckpoint, PreparePublish, DropSpec,
           PrepareFails, DevicesReleased, UnprepareSpec, UnprepareCheckpoint, UnprepareForget,
           UnprepareDir, SyncAllocatable, Scheduled, Schedule, Deallocate
  <2> QED BY <1>1, <2>1, TokensStep
<1> QED BY <1>1, <1>2, <1>3, RestartTokens

LEMMA StepIsLifetimeStep == StateInv /\ [StateNext]_vars => LifetimeStep
<1>1. UNCHANGED vars => UNCHANGED lifetimes
  BY DEF vars
<1> QED BY <1>1, MovesTokens, StepKinds DEF StateInv

(* The version tokens implement ClaimLifetimes, for any claims, retries,   *)
(* failures and crashes.                                                   *)
THEOREM TokensImplementLifetimes == StateSpec => TokensAreLifetimes
<1>1. StateInit => Lifetimes!Init
  BY DEF StateInit, Lifetimes!Init
<1> QED
  BY <1>1, StepIsLifetimeStep, StateHolds, PTL
     DEF StateSpec, TokensAreLifetimes, Lifetimes!Spec, LifetimeStep

-----------------------------------------------------------------------------
(* The slices behind the CDI specs.  While the process does not die, a     *)
(* slice in use goes only with a release of its name (OthersStayInUse),    *)
(* and a call releases only names of its claim, which no other claim has   *)
(* (OwnInv).                                                               *)

Owned(c, ids) == assigned[c] # None /\ ids \subseteq assigned[c].devices

OwnInv ==
  /\ ~ Core => \A a, b \in Claims : a # b /\ assigned[a] # None /\ assigned[b] # None =>
                 assigned[a].devices \cap assigned[b].devices = {}
  /\ \A c \in Claims : checkpoint[c] # None => Owned(c, checkpoint[c].devices)
  /\ step \in Preparing \cup {"release"} => Owned(claim, todo) /\ Owned(claim, done)

InUse(e) == \E d \in Cards : \E s \in npus[d].allocated : s.id = e[1] /\ s.template = e[2]

SpecInv ==
  /\ \A c \in Claims : checkpoint[c] # None /\ c \notin ending =>
       \A e \in cdi[c].env : e[1] \in checkpoint[c].devices /\ InUse(e)
  /\ step = "checkpoint" => \A e \in cdi[claim].env : e[1] \in done /\ InUse(e)

LEMMA ManagerStays ==
  ASSUME StateInv, CallStep, IInv
  PROVE  IInv'
  BY CallStepsSlices, SliceStepIsNext, SafeStep

LEMMA AllocationKeepsUse ==
  ASSUME TypeOK, NEW id, NEW t, AllocateSlice(id, t), NEW e, InUse(e)
  PROVE  InUse(e)'
<1>1. PICK c \in Cards :
        \/ \E s \in npus[c].available : npus' = [npus EXCEPT ![c] = TakenWhole(npus[c], s)]
        \/ \E s \in npus[c].available : \E u :
             npus' = [npus EXCEPT ![c] = Cut(npus[c], c, s, u)]
  BY DEF AllocateSlice, AllocateFullCard, AllocateSliceByTemplate
<1>2. npus[c] \in PhysicalNPU /\ DOMAIN npus = Cards
  BY DEF TypeOK
<1>3. \A d \in Cards : npus[d].allocated \subseteq npus'[d].allocated
  <2>1. \A s : npus[c].allocated \subseteq TakenWhole(npus[c], s).allocated
    BY <1>2 DEF TakenWhole, PhysicalNPU
  <2>2. \A s, u : npus[c].allocated \subseteq Cut(npus[c], c, s, u).allocated
    BY <1>2 DEF Cut, PhysicalNPU
  <2> QED BY <1>1, <1>2, <2>1, <2>2
<1> QED BY <1>3 DEF InUse

LEMMA OthersStayInUse ==
  ASSUME IInv, NEW id, ReleaseSlice(id), NEW e, InUse(e), e[1] # id
  PROVE  InUse(e)'
<1>1. PICK c \in Cards : \E s \in npus[c].allocated :
        /\ s.id = id
        /\ \/ npus[c].allocated = {s} /\ \E new : npus' = [npus EXCEPT ![c] = new]
           \/ npus' = [npus EXCEPT ![c] = Renumbered(npus[c], c, s)]
  <2>1. CASE ReleaseFullCard(id)
    <3>1. PICK c \in Cards : \E s \in npus[c].allocated :
            s.id = id /\ s.type = "NPU" /\ npus' = [npus EXCEPT ![c] = Restored(npus[c], c)]
      BY <2>1 DEF ReleaseFullCard
    <3>2. \A s \in npus[c].allocated : s.type = "NPU" => npus[c].allocated = {s}
      BY DEF IInv, CardSafe, Slices
    <3> QED BY <3>1, <3>2
  <2>2. CASE ReleaseLastSlice(id)
    <3>1. PICK c \in Cards : \E s \in npus[c].allocated :
            /\ s.id = id /\ npus[c].allocated \ {s} = {}
            /\ \E new : npus' = [npus EXCEPT ![c] = new]
      BY <2>2 DEF ReleaseLastSlice
    <3>2. \A s \in npus[c].allocated :
            npus[c].allocated \ {s} = {} => npus[c].allocated = {s}
      OBVIOUS
    <3> QED BY <3>1, <3>2
  <2>3. CASE ReleaseOneOfMany(id)
    BY <2>3 DEF ReleaseOneOfMany
  <2> QED BY <2>1, <2>2, <2>3 DEF ReleaseSlice
<1>2. npus[c] \in PhysicalNPU /\ DOMAIN npus = Cards
  BY DEF IInv, TypeOK
<1>3. PICK d \in Cards : \E t \in npus[d].allocated : t.id = e[1] /\ t.template = e[2]
  BY DEF InUse
<1>6. PICK s \in npus[c].allocated :
        /\ s.id = id
        /\ \/ npus[c].allocated = {s} /\ \E new : npus' = [npus EXCEPT ![c] = new]
           \/ npus' = [npus EXCEPT ![c] = Renumbered(npus[c], c, s)]
  BY <1>1
<1>7. PICK t \in npus[d].allocated : t.id = e[1] /\ t.template = e[2]
  BY <1>3
<1>4. Renumbered(npus[c], c, s).allocated = npus[c].allocated \ {s}
  BY <1>2 DEF Renumbered, PhysicalNPU
<1>5. t \in npus'[d].allocated
  <2>1. CASE d = c
    BY <1>6, <1>2, <1>7, <1>4, <2>1
  <2>2. CASE d # c
    BY <1>6, <1>2, <1>7, <2>2
  <2> QED BY <2>1, <2>2
<1> QED BY <1>3, <1>7, <1>5 DEF InUse

LEMMA OwnStep ==
  ASSUME StateInv, OwnInv, CallStep
  PROVE  OwnInv'
<1>1. Maps /\ CallInv /\ OwnInv
  BY DEF StateInv
<1>2. ASSUME NEW c \in Claims, Prepare(c) \/ Unprepare(c) PROVE OwnInv'
  BY <1>1, <1>2
     DEF Prepare, PrepareCannotRead, PrepareAgain, PrepareNew, Unprepare, UnprepareCannotRead,
         UnprepareUnknown, UnprepareKnown, files, outside, Goto, Return, OwnInv, Owned, Preparing,
         BeforeCheckpoint
<1>3. CASE \E id \in todo : PrepareResult(id) \/ ReleaseDevice(id)
  BY <1>1, <1>3
     DEF PrepareResult, ReleaseDevice, files, outside, Goto, OwnInv, Owned, Preparing,
         BeforeCheckpoint
<1>4. CASE PrepareCheckpoint \/ UnprepareCheckpoint
  BY <1>1, <1>4
     DEF PrepareCheckpoint, UnprepareCheckpoint, outside, Goto, Return, OwnInv, Owned, Preparing,
         BeforeCheckpoint, Maps
<1>5. CASE PrepareConfigs \/ PrepareSpec \/ PreparePublish \/ DropSpec \/ PrepareFails
           \/ DevicesReleased \/ UnprepareSpec \/ UnprepareForget \/ UnprepareDir
  BY <1>1, <1>5
     DEF PrepareConfigs, PrepareSpec, PreparePublish, DropSpec, PrepareFails, DevicesReleased,
         UnprepareSpec, UnprepareForget, UnprepareDir, files, outside, Goto, Return, OwnInv,
         Owned, Preparing, BeforeCheckpoint
<1>6. CASE SyncAllocatable
  BY <1>1, <1>6
     DEF SyncAllocatable, files, call, outside, OwnInv, Owned, Preparing, BeforeCheckpoint
<1>7. ASSUME NEW c \in Claims, Scheduled(c) \/ Deallocate(c) PROVE OwnInv'
  <2>1. ASSUME NEW offered, Schedule(c, offered) PROVE OwnInv'
    <3>1. PICK D \in SUBSET DOMAIN offered, t \in Templates \cup {NoTemplate},
               cfg \in Configs :
            /\ ~ Core => \A id \in D : \A d \in Claims :
                           assigned[d] # None => id \notin assigned[d].devices
            /\ assigned' = [assigned EXCEPT ![c] = [devices |-> D, template |-> t,
                                                    config |-> cfg]]
      BY <2>1 DEF Schedule
    <3>2. assigned[c] = None /\ UNCHANGED <<checkpoint, step, claim, todo, done>>
      BY <2>1 DEF Schedule, files, call
    <3>3. assigned'[c].devices = D /\ \A d \in Claims \ {c} : assigned'[d] = assigned[d]
      BY <1>1, <1>7, <3>1 DEF Maps
    <3>4. ASSUME ~ Core, NEW a \in Claims, NEW b \in Claims, a # b, assigned'[a] # None,
                 assigned'[b] # None
          PROVE  assigned'[a].devices \cap assigned'[b].devices = {}
      <4>1. CASE a = c
        BY <3>1, <3>3, <3>4, <4>1
      <4>2. CASE b = c
        BY <3>1, <3>3, <3>4, <4>2
      <4>3. CASE a # c /\ b # c
        BY <1>1, <3>3, <3>4, <4>3 DEF OwnInv
      <4> QED BY <4>1, <4>2, <4>3
    <3>5. \A d \in Claims : assigned[d] # None => assigned'[d] = assigned[d]
      BY <3>2, <3>3
    <3>6. step \in Preparing \cup {"release"} => claim \in Claims
      BY <1>1 DEF CallInv, Preparing, BeforeCheckpoint
    <3>7. \A d \in Claims : checkpoint[d] # None => Owned(d, checkpoint[d].devices)
      BY <1>1 DEF OwnInv
    <3>8. \A d \in Claims : checkpoint'[d] # None =>
            assigned'[d] # None /\ checkpoint'[d].devices \subseteq assigned'[d].devices
      BY <3>2, <3>5, <3>7 DEF Owned
    <3>9. step' \in Preparing \cup {"release"} =>
            /\ assigned'[claim'] # None
            /\ todo' \subseteq assigned'[claim'].devices
            /\ done' \subseteq assigned'[claim'].devices
      BY <1>1, <3>2, <3>5, <3>6 DEF OwnInv, Owned
    <3> QED BY <3>4, <3>8, <3>9 DEF OwnInv, Owned, Preparing, BeforeCheckpoint
  <2>2. CASE Deallocate(c)
    BY <1>1, <2>2 DEF Deallocate, files, call, OwnInv, Owned, Maps, Preparing, BeforeCheckpoint
  <2> QED BY <1>7, <2>1, <2>2 DEF Scheduled
<1> QED BY <1>2, <1>3, <1>4, <1>5, <1>6, <1>7 DEF CallStep, Continue

(* What a spec names is in use when the spec is written.                   *)
LEMMA SpecIsInUse == \A D : \A e \in ClaimSpec(D).env : e[1] \in D /\ InUse(e)
<1> SUFFICES ASSUME NEW D, NEW e \in ClaimSpec(D).env PROVE e[1] \in D /\ InUse(e)
  OBVIOUS
<1>1. PICK s \in UNION {npus[c].allocated : c \in Cards} :
        s.id \in D /\ e = <<s.id, s.template>>
  BY DEF ClaimSpec
<1> QED BY <1>1 DEF InUse

LEMMA SpecStep ==
  ASSUME StateInv, OwnInv, SpecInv, IInv, CallStep
  PROVE  SpecInv'
<1>1. Maps /\ CallInv /\ OwnInv /\ SpecInv /\ TypeOK
  BY DEF StateInv, StateTypeOK
<1>2. ASSUME UNCHANGED npus PROVE \A e : InUse(e) => InUse(e)'
  BY <1>2 DEF InUse
<1>3. ASSUME NEW c \in Claims, Prepare(c) \/ Unprepare(c) PROVE SpecInv'
  BY <1>1, <1>2, <1>3
     DEF Prepare, PrepareCannotRead, PrepareAgain, PrepareNew, Unprepare, UnprepareCannotRead,
         UnprepareUnknown, UnprepareKnown, files, outside, sliceVars, Goto, Return, SpecInv
<1>4. ASSUME NEW id \in todo, PrepareResult(id) PROVE SpecInv'
  <2>1. \A e : InUse(e) => InUse(e)'
    BY <1>1, <1>2, <1>4, AllocationKeepsUse DEF PrepareResult, sliceVars
  <2> QED BY <1>1, <1>4, <2>1 DEF PrepareResult, files, Goto, SpecInv
<1>5. ASSUME NEW id \in todo, ReleaseDevice(id) PROVE SpecInv'
  <2>1. \A e : InUse(e) /\ e[1] # id => InUse(e)'
    BY <1>1, <1>2, <1>5, OthersStayInUse DEF ReleaseDevice, sliceVars
  <2>2. ~ Core /\ step \in {"rollback", "release"} /\ UNCHANGED <<checkpoint, cdi, step, ending>>
    BY <1>5 DEF ReleaseDevice, files, outside
  <2>3. claim \in Claims /\ assigned[claim] # None /\ id \in assigned[claim].devices
    BY <1>1, <1>5, <2>2 DEF CallInv, OwnInv, Owned, Preparing, BeforeCheckpoint
  <2>4. ASSUME NEW c \in Claims, checkpoint[c] # None, c \notin ending, NEW e \in cdi[c].env
        PROVE  e[1] # id
    <3>1. c # claim
      BY <1>1, <2>2, <2>4 DEF CallInv, Preparing, Unpreparing
    <3>2. e[1] \in assigned[c].devices /\ assigned[c] # None
      BY <1>1, <2>4 DEF SpecInv, OwnInv, Owned
    <3> QED BY <1>1, <2>2, <2>3, <3>1, <3>2 DEF OwnInv
  <2> QED BY <1>1, <2>1, <2>2, <2>4 DEF SpecInv
<1>6. CASE PrepareSpec
  <2>1. UNCHANGED <<checkpoint, ending, npus, done, claim>>
    BY <1>6 DEF PrepareSpec, outside, sliceVars
  <2>2. checkpoint[claim] = None /\ \A c \in Claims \ {claim} : cdi'[c] = cdi[c]
    BY <1>1, <1>6 DEF PrepareSpec, CallInv, Preparing, BeforeCheckpoint, Maps
  <2>3. step' = "checkpoint" => cdi'[claim] = ClaimSpec(done)
    BY <1>1, <1>6 DEF PrepareSpec, Goto, CallInv, Maps
  <2> QED BY <1>1, <1>2, <2>1, <2>2, <2>3, SpecIsInUse DEF SpecInv
<1>7. CASE PrepareCheckpoint
  <2>1. UNCHANGED <<cdi, ending, npus, claim>> /\ step = "checkpoint" /\ step' # "checkpoint"
    BY <1>7 DEF PrepareCheckpoint, outside, sliceVars, Goto
  <2>2. \A c \in Claims :
          \/ checkpoint'[c] = checkpoint[c]
          \/ c = claim /\ checkpoint'[c].devices = done
    BY <1>1, <1>7 DEF PrepareCheckpoint, Maps
  <2> QED BY <1>1, <1>2, <2>1, <2>2 DEF SpecInv
<1>8. CASE DropSpec \/ UnprepareSpec \/ UnprepareCheckpoint
  <2>1. UNCHANGED <<ending, npus>> /\ step' # "checkpoint"
    BY <1>8 DEF DropSpec, UnprepareSpec, UnprepareCheckpoint, outside, sliceVars, Goto, Return
  <2>2. \A c \in Claims :
          \/ UNCHANGED <<checkpoint[c], cdi[c]>>
          \/ checkpoint'[c] = None \/ c \in ending
    BY <1>1, <1>8 DEF DropSpec, UnprepareSpec, UnprepareCheckpoint, CallInv, Maps, Preparing,
                      Unpreparing
  <2> QED BY <1>1, <1>2, <2>1, <2>2 DEF SpecInv
<1>9. CASE PrepareConfigs \/ PreparePublish \/ PrepareFails \/ DevicesReleased
           \/ UnprepareForget \/ UnprepareDir
  <2>1. UNCHANGED <<checkpoint, cdi, npus>> /\ step' # "checkpoint"
    BY <1>9 DEF PrepareConfigs, PreparePublish, PrepareFails, DevicesReleased, UnprepareForget,
                UnprepareDir, files, sliceVars, Goto, Return
  <2>2. \A c \in Claims : c \in ending => c \in ending' \/ checkpoint[c] = None
    BY <1>1, <1>9 DEF PrepareConfigs, PreparePublish, PrepareFails, DevicesReleased,
                      UnprepareForget, UnprepareDir, outside, Goto, Return, CallInv
  <2> QED BY <1>1, <1>2, <2>1, <2>2 DEF SpecInv
<1>10. CASE \/ SyncAllocatable
            \/ \E c \in Claims : Scheduled(c) \/ Deallocate(c)
  BY <1>1, <1>2, <1>10
     DEF SyncAllocatable, PruneAllocatable, Scheduled, Schedule, Deallocate, files, call, outside,
         sliceVars, SpecInv
<1> QED BY <1>3, <1>4, <1>5, <1>6, <1>7, <1>8, <1>9, <1>10 DEF CallStep, Continue

SlicesInv == StateInv /\ IInv /\ OwnInv /\ SpecInv

LEMMA SlicesInitHold == StateInit => SlicesInv
<1> SUFFICES ASSUME StateInit PROVE SlicesInv
  OBVIOUS
<1>1. StateInv /\ IInv
  BY StateInitHolds, SafeInit DEF StateInit
<1>2. OwnInv
  <2>1. [devices |-> LegacyPrepared.devices, template |-> NoTemplate, config |-> "valid"] # None
    <3>1. LegacyPrepared.devices \in SUBSET Ids
      BY DEF LegacyPrepared, Ids
    <3> QED BY <3>1, DeviceStateAssumption DEF Allocation
  <2>2. \A c \in Claims :
          /\ assigned[c] # None => c \in Legacy
          /\ checkpoint[c] # None => Owned(c, checkpoint[c].devices)
    BY <2>1 DEF StateInit, Owned, LegacyPrepared
  <2>3. Core \/ \A a, b \in Legacy : a = b
    BY DeviceStateAssumption
  <2> QED BY <2>2, <2>3 DEF StateInit, OwnInv, Preparing, BeforeCheckpoint
<1>3. SpecInv
  BY DEF StateInit, SpecInv
<1> QED BY <1>1, <1>2, <1>3 DEF SlicesInv

LEMMA SlicesInductive ==
  "crash" \notin Faults /\ SlicesInv /\ [StateNext]_vars => SlicesInv'
<1> SUFFICES ASSUME "crash" \notin Faults, SlicesInv, [StateNext]_vars PROVE SlicesInv'
  OBVIOUS
<1>1. StateInv'
  BY StateInductive DEF SlicesInv
<1>2. CASE CallStep
  BY <1>1, <1>2, ManagerStays, OwnStep, SpecStep DEF SlicesInv
<1>3. CASE NewDeviceState \/ UNCHANGED vars
  <2>1. UNCHANGED <<npus, allocatable, checkpoint, cdi, ending, assigned, claim, todo, done>>
        /\ (step' = step \/ step' = "idle")
    BY <1>3 DEF NewDeviceState, Goto, vars, files, call, outside, sliceVars
  <2>2. IInv'
    BY <2>1, SafeStep DEF SlicesInv, sliceVars
  <2>3. OwnInv'
    BY <2>1 DEF SlicesInv, OwnInv, Owned, Preparing, BeforeCheckpoint
  <2>4. SpecInv'
    BY <2>1 DEF SlicesInv, SpecInv, InUse
  <2> QED BY <1>1, <2>2, <2>3, <2>4 DEF SlicesInv
<1>4. StateTypeOK /\ ~ Crash
  BY DEF SlicesInv, StateInv, Crash, Fail
<1> QED BY <1>2, <1>3, <1>4, StepKinds

(* While the process runs, the vNPU specs given to containers are those of *)
(* slices in use, whatever else is prepared, unprepared or fails.          *)
THEOREM SpecsMatch == "crash" \notin Faults => (StateSpec => []SpecMatchesSlice)
<1> SUFFICES ASSUME "crash" \notin Faults PROVE StateSpec => []SpecMatchesSlice
  OBVIOUS
<1>1. SlicesInv /\ [StateNext]_vars => SlicesInv'
  BY SlicesInductive
<1>2. SlicesInv => SpecMatchesSlice
  BY DEF SlicesInv, SpecInv, SpecMatchesSlice, InUse
<1> QED BY SlicesInitHold, <1>1, <1>2, PTL DEF StateSpec
=============================================================================
