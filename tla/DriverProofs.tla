------------------------------ MODULE DriverProofs ------------------------------
(***************************************************************************)
(* What holds of the driver process, for any claims, cards, templates and  *)
(* failures: the RPCs and the startup step DeviceState as its own calls    *)
(* do, so that what DeviceStateProofs shows of them holds here too, with a *)
(* scheduler that looks at any list that was ever published.               *)
(***************************************************************************)
EXTENDS Driver, DeviceStateProofs

-----------------------------------------------------------------------------
(* The types, and where the process is: a call runs in an RPC of its kind, *)
(* before that RPC's syncAllocatable, and its claim has left pending; the  *)
(* claims of a Prepare RPC are allocated.                                  *)
ListTypes ==
  /\ \A list \in {rpcList, mainList} \ {None} : IsAllocatableMap(list)
  /\ IsAllocatableMap(published)
  /\ main = "publishing" => IsAllocatableMap(mainList)

ProcessTypes ==
  /\ rpc \in {None, "prepare", "unprepare"} /\ pending \subseteq Claims
  /\ main \in {"off", "serving", "started", "publishing", "up"}

RpcInv ==
  /\ step \notin {"idle", "down"} => rpc # None /\ rpcList = None /\ claim \notin pending
  /\ step \in Preparing \cup {"publish"} => rpc = "prepare"
  /\ step \in Unpreparing => rpc = "unprepare"
  /\ rpc = "prepare" => \A c \in pending : assigned[c] # None

(* What is in use of a claim that is prepared, or about to be, is listed.  *)
ListedInv ==
  /\ PreparedStaysListed
  /\ step \in BeforeCheckpoint => \A id \in done : IsAllocated(id) => id \in DOMAIN allocatable

(* Whoever holds a slice that is in use on a card the manager has not lost *)
(* track of: a prepared claim, or the call under way.                      *)
Holds(id) ==
  \/ \E c \in Claims : checkpoint[c] # None /\ id \in checkpoint[c].devices
  \/ step \in BeforeCheckpoint \cup {"dropSpec"} /\ id \in done
  \/ step = "rollback" /\ id \in todo

HeldInv ==
  /\ \A id \in Ids : IsAllocated(id) => id[1] \in stray \/ Holds(id)
  /\ step = "results" => done \cap todo = {}
  /\ step \in {"release", "unspec", "uncheckpoint"} =>
       /\ checkpoint[claim] # None
       /\ \A id \in checkpoint[claim].devices :
            IsAllocated(id) => step = "release" /\ id \in todo
  /\ step = "down" => \A id \in Ids : ~ IsAllocated(id)

(* The name of a whole card is listed without a slice of that name only    *)
(* until the RPC that released it has pruned the list, and no claim of a   *)
(* Prepare RPC waits for it.                                               *)
Stale(k) == <<k, 0>> \in DOMAIN allocatable /\ <<k, 0>> \notin SliceIds

StaleInv ==
  \A k \in Cards : Stale(k) =>
    /\ rpc # None /\ rpcList = None
    /\ rpc = "prepare" => \A c \in pending : <<k, 0>> \notin assigned[c].devices
    /\ step = "results" => <<k, 0>> \notin todo

(* A card that is free under its own name is whole.                        *)
FreeInv == \A k \in Cards : \A s \in npus[k].available : s.id[2] = 0 => s.type = "NPU"

(* Claims without a template have whole cards of the scheduler, and then   *)
(* of the manager.                                                         *)
WholeSlice(id) == \E s \in npus[id[1]].allocated : s.id = id /\ s.type = "NPU"

HasWhole(ids) == \A id \in ids : id[1] \in stray \/ WholeSlice(id)

Whole(c) == assigned[c] # None /\ assigned[c].template = NoTemplate

WholeInv ==
  /\ \A c \in Claims : Whole(c) => \A id \in assigned[c].devices : id[2] = 0
  /\ step # "down" => \A c \in Claims :
       checkpoint[c] # None /\ c \notin ending /\ Whole(c) => HasWhole(checkpoint[c].devices)
  /\ step \in BeforeCheckpoint /\ Whole(claim) => HasWhole(done)

CardsInv == ~ Core => HeldInv /\ StaleInv /\ FreeInv /\ WholeInv

-----------------------------------------------------------------------------
(* What a step of the process does to DeviceState.                         *)
StateMove ==
  \/ CallStep \/ NewDeviceState \/ ProcessEnds
  \/ UNCHANGED <<files, lifetimes, call, outside, sliceVars>> /\ faults' \in Nat

LEMMA SyncMoves ==
  ASSUME faults \in Nat, Sync, UNCHANGED faults
  PROVE  SyncAllocatable \/ UNCHANGED <<files, lifetimes, call, outside, sliceVars, faults>>
BY DEF Sync, Synced, SyncAllocatable, PruneAllocatable, sliceVars

LEMMA StepMoves ==
  ASSUME StateTypeOK, ListTypes, ProcessTypes, [DriverNext]_allVars
  PROVE  StateMove
<1>1. faults \in Nat
  BY DEF StateTypeOK
<1>2. \A list : Publish(list) => faults' \in Nat
  BY <1>1 DEF Publish, Works, Fail
<1>3. CASE MainSync \/ RpcSync
  BY <1>1, <1>3, SyncMoves DEF MainSync, RpcSync, StateMove, CallStep
<1>4. CASE MainPublish \/ RpcPublish
  BY <1>2, <1>4 DEF MainPublish, RpcPublish, StateMove
<1>5. CASE DriverCrash \/ PublishWithoutHelper
  BY <1>1, <1>5 DEF DriverCrash, PublishWithoutHelper, ProcessGone, Fail, StateMove, ProcessEnds
<1>6. CASE \E c \in Claims : ClaimScheduled(c) \/ ClaimDeallocated(c)
  BY <1>6 DEF ClaimScheduled, ClaimDeallocated, ListTypes, StateMove, CallStep, Scheduled
<1>7. CASE (\E c \in pending : NextClaim(c)) \/ ContinueClaim
  <2>1. \A c : NextClaim(c) => Prepare(c) \/ Unprepare(c)
    BY DEF NextClaim
  <2>2. \A c \in Claims : NextClaim(c) => CallStep
    BY <2>1 DEF CallStep
  <2>3. ContinueClaim => CallStep
    BY DEF ContinueClaim, CallStep
  <2> QED BY <1>7, <2>2, <2>3 DEF StateMove, ProcessTypes
<1>8. CASE \/ StartReturns \/ HealthCheck \/ UNCHANGED allVars
           \/ \E C \in SUBSET Claims : BeginPrepare(C) \/ BeginUnprepare(C)
  BY <1>1, <1>8
     DEF StartReturns, HealthCheck, BeginPrepare, BeginUnprepare, allVars, vars, StateMove
<1>9. CASE StartServing
  BY <1>9 DEF StartServing, StateMove
<1> QED BY <1>3, <1>4, <1>5, <1>6, <1>7, <1>8, <1>9 DEF DriverNext, Serve

LEMMA MoveInductive ==
  ASSUME StateInv, StateMove
  PROVE  StateInv'
<1>1. CASE UNCHANGED <<files, lifetimes, call, outside, sliceVars>> /\ faults' \in Nat
  <2>1. Maps' /\ CallInv' /\ MemoryInv' /\ PreparedHasFiles'
    BY <1>1 DEF files, lifetimes, call, outside, StateInv, Maps, CallInv, MemoryInv,
                TokensFollowCheckpoint, PreparedHasFiles
  <2>2. StateTypeOK'
    BY <1>1 DEF files, lifetimes, call, outside, sliceVars, StateInv, StateTypeOK, TypeOK,
                IsAllocatableMap
  <2> QED BY <2>1, <2>2 DEF StateInv
<1> QED BY <1>1, CallStepInductive, EndInductive, RestartInductive DEF StateMove

DriverInv == StateInv /\ ListTypes /\ ProcessTypes

LEMMA NothingIsMap == IsAllocatableMap(NothingPublished)
BY DEF IsAllocatableMap, NothingPublished

LEMMA DriverInitHolds == DriverInit => DriverInv
BY StateInitHolds, NothingIsMap DEF DriverInit, DriverInv, ListTypes, ProcessTypes

LEMMA SyncedIsMap ==
  ASSUME TypeOK
  PROVE  IsAllocatableMap(Synced)
<1>1. IsAllocatableMap(allocatable)
  BY DEF TypeOK
<1> QED BY <1>1, AllocatableTypes DEF Synced

(* A list in flight, or published, is a copy of the allocatable devices.   *)
LEMMA ListTypesStep ==
  ASSUME DriverInv, [DriverNext]_allVars
  PROVE  ListTypes'
<1> DEFINE Copied == /\ UNCHANGED published
                     /\ \/ UNCHANGED <<rpcList, mainList>> /\ main' # "publishing"
                        \/ UNCHANGED <<rpcList, mainList, main>>
                        \/ rpcList' = None /\ mainList' = None /\ main' = "off"
                        \/ rpcList' = Synced /\ UNCHANGED <<mainList, main>>
                        \/ mainList' = Synced /\ UNCHANGED rpcList
<1>1. ListTypes /\ IsAllocatableMap(Synced)
  BY SyncedIsMap DEF DriverInv, StateInv, StateTypeOK
<1>2. CASE RpcPublish
  <2>1. published' \in {published, rpcList} /\ rpcList # None
    BY <1>2 DEF RpcPublish, Publish
  <2>2. rpcList' = None /\ UNCHANGED <<mainList, main>>
    BY <1>2 DEF RpcPublish
  <2>3. IsAllocatableMap(published)'
    BY <1>1, <2>1 DEF ListTypes
  <2> QED BY <1>1, <2>2, <2>3 DEF ListTypes
<1>3. CASE MainPublish
  <2>1. published' \in {published, mainList} /\ main = "publishing"
    BY <1>3 DEF MainPublish, Publish
  <2>2. mainList' = None /\ UNCHANGED rpcList /\ main' = "up"
    BY <1>3 DEF MainPublish
  <2>3. IsAllocatableMap(published)'
    BY <1>1, <2>1 DEF ListTypes
  <2> QED BY <1>1, <2>2, <2>3 DEF ListTypes
<1>4. Copied => ListTypes'
  BY <1>1 DEF ListTypes
<1>5. StartServing \/ StartReturns => Copied
  BY DEF StartServing, StartReturns
<1>6. MainSync \/ RpcSync => Copied
  BY DEF MainSync, RpcSync
<1>7. DriverCrash \/ PublishWithoutHelper => Copied
  BY DEF DriverCrash, PublishWithoutHelper, ProcessGone
<1>8. UNCHANGED <<published, rpcList, mainList, main>> => Copied
  OBVIOUS
<1>9. \/ HealthCheck \/ ContinueClaim \/ UNCHANGED allVars
      \/ \E C \in SUBSET Claims : BeginPrepare(C) \/ BeginUnprepare(C)
      \/ \E c \in pending : NextClaim(c)
      \/ \E c \in Claims : ClaimScheduled(c) \/ ClaimDeallocated(c)
      => UNCHANGED <<published, rpcList, mainList, main>>
  BY DEF HealthCheck, ContinueClaim, BeginPrepare, BeginUnprepare, NextClaim, ClaimScheduled,
         ClaimDeallocated, allVars, driverVars
<1> HIDE DEF Copied
<1> QED BY <1>2, <1>3, <1>4, <1>5, <1>6, <1>7, <1>8, <1>9 DEF DriverNext, Serve

LEMMA ProcessTypesStep ==
  ASSUME ProcessTypes, [DriverNext]_allVars
  PROVE  ProcessTypes'
BY DEF ProcessTypes, DriverNext, Serve, StartServing, StartReturns, MainSync, MainPublish,
       BeginPrepare, BeginUnprepare, HealthCheck, NextClaim, ContinueClaim, RpcSync, RpcPublish,
       DriverCrash, PublishWithoutHelper, ProcessGone, ClaimScheduled, ClaimDeallocated,
       allVars, driverVars

LEMMA DriverInductive == DriverInv /\ [DriverNext]_allVars => DriverInv'
BY StepMoves, MoveInductive, ListTypesStep, ProcessTypesStep DEF DriverInv, StateInv

LEMMA DriverHolds == DriverSpec => []DriverInv
BY DriverInitHolds, DriverInductive, PTL DEF DriverSpec

(* The process, the lists that are on their way to the scheduler and the   *)
(* one that it sees keep their types.                                      *)
THEOREM DriverTypes == DriverSpec => []DriverTypeOK
<1>1. DriverInv => DriverTypeOK
  BY DEF DriverInv, StateInv, ListTypes, ProcessTypes, DriverTypeOK
<1> QED BY <1>1, DriverHolds, PTL

(* A claim has a token exactly while it is prepared, also while RPCs are   *)
(* served beside the startup and the scheduler acts on an old list.        *)
THEOREM DriverTokensFollow == DriverSpec => []TokensFollowCheckpoint
<1>1. DriverInv => TokensFollowCheckpoint
  BY DEF DriverInv, StateInv, MemoryInv
<1> QED BY <1>1, DriverHolds, PTL

(* And what the checkpoint calls prepared has its files.                   *)
THEOREM DriverKeepsFiles == DriverSpec => []PreparedHasFiles
<1>1. DriverInv => PreparedHasFiles
  BY DEF DriverInv, StateInv
<1> QED BY <1>1, DriverHolds, PTL

(* What the monitor relies on holds of the process as a whole: its tokens  *)
(* implement ClaimLifetimes.                                               *)
THEOREM DriverImplementsLifetimes == DriverSpec => TokensAreLifetimes
<1>1. DriverInit => Lifetimes!Init
  BY DEF DriverInit, StateInit, Lifetimes!Init
<1>2. DriverInv /\ [DriverNext]_allVars => LifetimeStep
  BY StepMoves, MovesTokens DEF DriverInv, StateInv, StateMove
<1> QED
  BY <1>1, <1>2, DriverHolds, PTL
     DEF DriverSpec, TokensAreLifetimes, Lifetimes!Spec, LifetimeStep

-----------------------------------------------------------------------------
(* The manager and who owns which name, through every step of the process. *)
LEMMA MoveKinds ==
  ASSUME StateMove
  PROVE  \/ CallStep
         \/ ProcessEnds
         \/ /\ UNCHANGED <<files, assigned, ending, claim, todo, done, sliceVars>>
            /\ \/ NewDeviceState
               \/ UNCHANGED <<step, stray>>
BY DEF StateMove, NewDeviceState, call, outside

LEMMA ManagerMove ==
  ASSUME StateInv, IInv, StateMove
  PROVE  IInv'
<1>1. CASE ProcessEnds
  <2>1. \A c \in Cards : npus'[c] = NewPhysicalNPU(c)
    BY <1>1 DEF ProcessEnds, FreshMemory
  <2>2. TypeOK'
    BY <1>1, SlicesKeepTypes DEF ProcessEnds, StateInv, StateTypeOK
  <2>3. \A c \in Cards : CardSafe(c, NewPhysicalNPU(c))
    BY WholeCardSafe DEF NewPhysicalNPU
  <2> QED BY <2>1, <2>2, <2>3 DEF IInv
<1>2. CASE UNCHANGED sliceVars
  BY <1>2, SafeStep
<1> QED BY <1>1, <1>2, MoveKinds, ManagerStays

LEMMA OwnMove ==
  ASSUME StateInv, OwnInv, StateMove
  PROVE  OwnInv'
<1>1. CASE ProcessEnds
  BY <1>1 DEF ProcessEnds, files, outside, OwnInv, Owned, Preparing, BeforeCheckpoint
<1>2. CASE /\ UNCHANGED <<files, assigned, ending, claim, todo, done, sliceVars>>
           /\ NewDeviceState \/ UNCHANGED <<step, stray>>
  BY <1>2 DEF NewDeviceState, Goto, files, OwnInv, Owned, Preparing, BeforeCheckpoint
<1> QED BY <1>1, <1>2, MoveKinds, OwnStep

LEMMA RpcStep ==
  ASSUME DriverInv, RpcInv, [DriverNext]_allVars
  PROVE  RpcInv'
<1>1. ProcessTypes /\ CallInv /\ step \in Steps
  BY DEF DriverInv, StateInv, StateTypeOK
<1>2. ASSUME NEW c \in pending, NextClaim(c) PROVE RpcInv'
  <2>1. /\ rpc # None /\ rpcList = None /\ pending' = pending \ {c}
        /\ UNCHANGED <<rpc, rpcList, assigned>>
    BY <1>1, <1>2, RpcAssumption DEF NextClaim, Prepare, PrepareCannotRead, PrepareAgain, PrepareNew, Unprepare,
                      UnprepareCannotRead, UnprepareUnknown, UnprepareKnown, outside, ProcessTypes
  <2>2. CASE Prepare(c) /\ rpc = "prepare"
    <3>1. step' \in {"idle", "results", "fail"} /\ (step' = "idle" \/ claim' = c)
      BY <2>2 DEF Prepare, PrepareCannotRead, PrepareAgain, PrepareNew, Goto, Return
    <3> QED BY <1>1, <2>1, <2>2, <3>1 DEF RpcInv, Preparing, BeforeCheckpoint, Unpreparing
  <2>3. CASE Unprepare(c) /\ rpc = "unprepare"
    <3>1. step' \in {"idle", "release"} /\ (step' = "idle" \/ claim' = c)
      BY <2>3 DEF Unprepare, UnprepareCannotRead, UnprepareUnknown, UnprepareKnown, Goto, Return
    <3> QED BY <1>1, <2>1, <2>3, <3>1 DEF RpcInv, Preparing, BeforeCheckpoint, Unpreparing
  <2> QED BY <1>2, <2>2, <2>3 DEF NextClaim
<1>3. CASE ContinueClaim
  <2>1. UNCHANGED <<rpc, rpcList, pending, assigned>> /\ step \notin {"idle", "down"}
        /\ (step' = "idle" \/ claim' = claim)
    BY <1>3 DEF ContinueClaim, driverVars, Continue, PrepareResult, ReleaseDevice,
         PrepareConfigs, PrepareSpec, PrepareCheckpoint, PreparePublish, DropSpec,
         PrepareFails, DevicesReleased, UnprepareSpec, UnprepareCheckpoint, UnprepareForget,
         UnprepareDir, Goto, Return, outside
  <2>2. \/ step' = "idle"
        \/ step \in Preparing /\ step' \in Preparing \cup {"publish"}
        \/ step \in Unpreparing /\ step' \in Unpreparing
    BY <1>3 DEF ContinueClaim, Continue, PrepareResult, ReleaseDevice,
         PrepareConfigs, PrepareSpec, PrepareCheckpoint, PreparePublish, DropSpec,
         PrepareFails, DevicesReleased, UnprepareSpec, UnprepareCheckpoint, UnprepareForget,
         UnprepareDir, Goto, Return, Preparing, BeforeCheckpoint, Unpreparing
  <2> QED BY <2>1, <2>2 DEF RpcInv, Preparing, BeforeCheckpoint, Unpreparing
<1>4. CASE RpcSync \/ RpcPublish \/ MainSync \/ MainPublish \/ StartReturns
           \/ HealthCheck \/ UNCHANGED allVars
           \/ \E C \in SUBSET Claims : BeginPrepare(C) \/ BeginUnprepare(C)
  <2>1. UNCHANGED <<step, claim, assigned>>
    BY <1>4 DEF RpcSync, RpcPublish, MainSync, MainPublish, StartReturns, HealthCheck,
                BeginPrepare, BeginUnprepare, Sync, allVars, vars, call, outside
  <2>2. \/ UNCHANGED <<rpc, rpcList, pending>>
        \/ /\ step \in {"idle", "down"}
           /\ rpc' = "prepare" => UNCHANGED <<rpc, pending>> \/ \A c \in pending' : assigned[c] # None
    BY <1>4, RpcAssumption
       DEF RpcSync, RpcPublish, MainSync, MainPublish, StartReturns, HealthCheck, BeginPrepare,
           BeginUnprepare, Sync, allVars, driverVars, RpcInv
  <2> QED BY <2>1, <2>2 DEF RpcInv, Preparing, BeforeCheckpoint, Unpreparing
<1>5. CASE StartServing \/ DriverCrash \/ PublishWithoutHelper
  <2>1. UNCHANGED assigned /\ step' \in {"idle", "down"}
        /\ (UNCHANGED <<rpc, pending>> \/ pending' = {})
    BY <1>5 DEF StartServing, NewDeviceState, DriverCrash, PublishWithoutHelper, ProcessGone,
                Goto, outside
  <2> QED BY <2>1 DEF RpcInv, Preparing, BeforeCheckpoint, Unpreparing
<1>6. ASSUME NEW c \in Claims, ClaimScheduled(c) \/ ClaimDeallocated(c) PROVE RpcInv'
  <2>1. UNCHANGED <<step, claim, rpc, pending, rpcList>>
        /\ \A d \in pending : assigned[d] # None => assigned'[d] = assigned[d]
    BY <1>1, <1>6 DEF ClaimScheduled, ClaimDeallocated, Schedule, Deallocate, driverVars, call,
                      DriverInv, StateInv, Maps, ProcessTypes
  <2> QED BY <2>1 DEF RpcInv, Preparing, BeforeCheckpoint, Unpreparing
<1> QED BY <1>2, <1>3, <1>4, <1>5, <1>6 DEF DriverNext, Serve

-----------------------------------------------------------------------------
(* What taking and giving back a slice does to the others and to the list. *)
LEMMA ListedNames == \A id : id \in SliceIds <=> \E k \in Cards : \E s \in Slices(npus[k]) : s.id = id
BY DEF SliceIds

LEMMA UsedNames ==
  ASSUME IInv, NEW k \in Cards, NEW s \in Slices(npus[k])
  PROVE  s \in Slice /\ s.id \in Ids /\ s.id[1] = k /\ s.id \in SliceIds
<1>1. s \in Slice /\ s.id \in {k} \X (0 .. npus[k].next - 1)
  BY DEF IInv, CardSafe, TypeOK, PhysicalNPU, Slices
<1> QED BY <1>1, ListedNames DEF Slice

(* One card changes: what it has then.                                     *)
Changes(k, new) == npus' = [npus EXCEPT ![k] = new]

Listed(k) == allocatable' = WithDevice(allocatable, <<k, npus[k].next>>, npus[k].support)

Takes(id, t, k, s, new, taken) ==
  /\ s.id = id /\ Changes(k, new)
  /\ taken.id = id /\ new.allocated = npus[k].allocated \cup {taken}
  /\ npus[k].available \ {s} \subseteq new.available
  /\ new.available \subseteq npus[k].available \cup {FreeSlice(k, npus[k].next)}
  /\ WantsFullCard(t) => taken = s
  /\ UNCHANGED allocatable \/ Listed(k)

GivesBack(id, k, s, new) ==
  /\ s.id = id /\ Changes(k, new)
  /\ new.allocated = npus[k].allocated \ {s}
  /\ \/ new.available = {FullCardSlice(k)} /\ UNCHANGED allocatable
     \/ new.available = {FreeSlice(k, npus[k].next)} /\ Listed(k)

LEMMA AllocationShape ==
  ASSUME IInv, NEW id, NEW t, AllocateSlice(id, t)
  PROVE  \E k \in Cards : \E s \in npus[k].available : \E new, taken :
           Takes(id, t, k, s, new, taken)
<1>1. \A k \in Cards : npus[k] \in PhysicalNPU
  BY DEF IInv, TypeOK
<1>2. CASE AllocateFullCard(id, t)
  <2>1. PICK k \in Cards : \E s \in npus[k].available :
          s.id = id /\ npus' = [npus EXCEPT ![k] = TakenWhole(npus[k], s)]
    BY <1>2 DEF AllocateFullCard
  <2>3. PICK s \in npus[k].available :
          s.id = id /\ npus' = [npus EXCEPT ![k] = TakenWhole(npus[k], s)]
    BY <2>1
  <2>2. /\ TakenWhole(npus[k], s).available = npus[k].available \ {s}
        /\ TakenWhole(npus[k], s).allocated = npus[k].allocated \cup {s}
    BY <1>1 DEF TakenWhole, PhysicalNPU
  <2> QED BY <1>2, <2>2, <2>3 DEF AllocateFullCard, Changes, Takes
<1>3. CASE AllocateSliceByTemplate(id, t)
  <2>1. PICK k \in Cards : \E s \in npus[k].available : \E u \in BestTemplates(npus[k], t) :
          /\ s.id = id /\ npus' = [npus EXCEPT ![k] = Cut(npus[k], k, s, u)]
          /\ allocatable' = WithDevice(allocatable, <<k, npus[k].next>>, npus[k].support)
    BY <1>3 DEF AllocateSliceByTemplate
  <2>2. PICK s \in npus[k].available, u \in BestTemplates(npus[k], t) :
          /\ s.id = id /\ npus' = [npus EXCEPT ![k] = Cut(npus[k], k, s, u)]
    BY <2>1
  <2> DEFINE new == Cut(npus[k], k, s, u)
             taken == [s EXCEPT !.template = u, !.type = "vNPU"]
  <2>3. /\ new.available = (npus[k].available \ {s}) \cup {FreeSlice(k, npus[k].next)}
        /\ new.allocated = npus[k].allocated \cup {taken}
    BY <1>1 DEF Cut, PhysicalNPU
  <2>4. taken.id = id
    <3>1. s \in Slice
      BY <1>1 DEF PhysicalNPU
    <3> QED BY <2>2, <3>1 DEF Slice
  <2>5. s.id = id /\ Changes(k, new) /\ ~ WantsFullCard(t)
    BY <1>3, <2>2 DEF AllocateSliceByTemplate, Changes
  <2> HIDE DEF new, taken
  <2> QED BY <2>1, <2>3, <2>4, <2>5 DEF Takes, Listed
<1> QED BY <1>2, <1>3 DEF AllocateSlice

LEMMA ReleaseShape ==
  ASSUME IInv, NEW id, ReleaseSlice(id)
  PROVE  \E k \in Cards : \E s \in npus[k].allocated : \E new : GivesBack(id, k, s, new)
<1>1. \A k \in Cards : npus[k] \in PhysicalNPU
  BY DEF IInv, TypeOK
<1>2. \A k \in Cards : /\ Restored(npus[k], k).available = {FullCardSlice(k)}
                       /\ Restored(npus[k], k).allocated = {}
  BY <1>1 DEF Restored, PhysicalNPU
<1>3. CASE ReleaseFullCard(id)
  <2>3. PICK k \in Cards : \E s \in npus[k].allocated :
          s.id = id /\ s.type = "NPU" /\ npus' = [npus EXCEPT ![k] = Restored(npus[k], k)]
    BY <1>3 DEF ReleaseFullCard
  <2>1. PICK s \in npus[k].allocated :
          s.id = id /\ s.type = "NPU" /\ npus' = [npus EXCEPT ![k] = Restored(npus[k], k)]
    BY <2>3
  <2>2. npus[k].allocated = {s}
    BY <2>1 DEF IInv, CardSafe, Slices
  <2>4. Restored(npus[k], k).allocated = npus[k].allocated \ {s}
    BY <1>2, <2>2
  <2> QED BY <1>2, <1>3, <2>1, <2>4 DEF ReleaseFullCard, Changes, GivesBack
<1>4. CASE ReleaseLastSlice(id)
  <2>4. PICK k \in Cards : \E s \in npus[k].allocated :
          /\ s.id = id /\ npus[k].allocated \ {s} = {}
          /\ npus' = [npus EXCEPT ![k] = [Restored(npus[k], k) EXCEPT !.support = Supported({})]]
    BY <1>4 DEF ReleaseLastSlice
  <2>1. PICK s \in npus[k].allocated :
          /\ s.id = id /\ npus[k].allocated \ {s} = {}
          /\ npus' = [npus EXCEPT ![k] = [Restored(npus[k], k) EXCEPT !.support = Supported({})]]
    BY <2>4
  <2> DEFINE new == [Restored(npus[k], k) EXCEPT !.support = Supported({})]
  <2>2. new.available = {FullCardSlice(k)} /\ new.allocated = {}
    BY <1>1 DEF Restored, PhysicalNPU
  <2>3. npus[k].allocated = {s} /\ Changes(k, new) /\ s.id = id /\ UNCHANGED allocatable
    BY <1>4, <2>1 DEF ReleaseLastSlice, Changes
  <2> HIDE DEF new
  <2> QED BY <2>2, <2>3 DEF GivesBack
<1>5. CASE ReleaseOneOfMany(id)
  <2>1. PICK k \in Cards : \E s \in npus[k].allocated :
          /\ s.id = id /\ s.type = "vNPU" /\ npus[k].allocated \ {s} # {}
          /\ npus' = [npus EXCEPT ![k] = Renumbered(npus[k], k, s)]
          /\ allocatable' = WithDevice(allocatable, <<k, npus[k].next>>, npus[k].support)
    BY <1>5 DEF ReleaseOneOfMany
  <2>2. PICK s \in npus[k].allocated :
          /\ s.id = id /\ s.type = "vNPU" /\ npus[k].allocated \ {s} # {}
          /\ npus' = [npus EXCEPT ![k] = Renumbered(npus[k], k, s)]
    BY <2>1
  <2>3. /\ Renumbered(npus[k], k, s).available = {FreeSlice(k, npus[k].next)}
        /\ Renumbered(npus[k], k, s).allocated = npus[k].allocated \ {s}
    BY <1>1 DEF Renumbered, PhysicalNPU
  <2> QED BY <2>1, <2>2, <2>3 DEF Changes, GivesBack, Listed
<1> QED BY <1>3, <1>4, <1>5 DEF ReleaseSlice

LEMMA ListGrows ==
  ASSUME IInv, NEW k \in Cards, Listed(k)
  PROVE  /\ DOMAIN allocatable \subseteq DOMAIN allocatable'
         /\ \A c \in Cards : <<c, 0>> \in DOMAIN allocatable' => <<c, 0>> \in DOMAIN allocatable
<1>1. npus[k].next # 0
  BY DEF IInv, CardSafe
<1>2. DOMAIN allocatable' = DOMAIN allocatable \cup {<<k, npus[k].next>>}
  BY DEF WithDevice, Listed
<1> QED BY <1>1, <1>2

LEMMA AllocatingKeeps ==
  ASSUME IInv, NEW id, NEW t, AllocateSlice(id, t)
  PROVE  /\ \A x : IsAllocated(x)' => IsAllocated(x) \/ x = id
         /\ \A k \in Cards : npus[k].allocated \subseteq npus'[k].allocated
         /\ \A x \in SliceIds : x \in SliceIds'
         /\ DOMAIN allocatable \subseteq DOMAIN allocatable'
         /\ \A c \in Cards : <<c, 0>> \in DOMAIN allocatable' => <<c, 0>> \in DOMAIN allocatable
<1>1. PICK k \in Cards : \E s \in npus[k].available : \E new, taken :
        Takes(id, t, k, s, new, taken)
  BY AllocationShape
<1>8. PICK s \in npus[k].available : \E new, taken : Takes(id, t, k, s, new, taken)
  BY <1>1
<1>9. PICK new, taken : Takes(id, t, k, s, new, taken)
  BY <1>8
<1>2. /\ s.id = id /\ Changes(k, new)
      /\ taken.id = id /\ new.allocated = npus[k].allocated \cup {taken}
      /\ npus[k].available \ {s} \subseteq new.available
      /\ UNCHANGED allocatable \/ Listed(k)
  BY <1>9 DEF Takes
<1>3. DOMAIN npus = Cards
  BY DEF IInv, TypeOK
<1>4. npus'[k] = new /\ \A c \in Cards \ {k} : npus'[c] = npus[c]
  BY <1>2, <1>3 DEF Changes
<1>5. \A x : IsAllocated(x)' => IsAllocated(x) \/ x = id
  BY <1>2, <1>4 DEF IsAllocated
<1>6. \A c \in Cards : npus[c].allocated \subseteq npus'[c].allocated
  BY <1>2, <1>4
<1>7. ASSUME NEW x \in SliceIds PROVE x \in SliceIds'
  <2>4. PICK c \in Cards : \E r \in Slices(npus[c]) : r.id = x
    BY ListedNames
  <2>1. PICK r \in Slices(npus[c]) : r.id = x
    BY <2>4
  <2>2. \E c2 \in Cards : \E r2 \in Slices(npus'[c2]) : r2.id = x
    <3>1. CASE r = s /\ c = k
      <4>1. taken \in Slices(npus'[k])
        BY <1>2, <1>4 DEF Slices
      <4> QED BY <1>2, <2>1, <3>1, <4>1
    <3>2. CASE ~ (r = s /\ c = k)
      <4>1. r \in Slices(npus'[c])
        BY <1>2, <1>4, <2>1, <3>2 DEF Slices
      <4> QED BY <2>1, <4>1
    <3> QED BY <3>1, <3>2
  <2>3. \E r2 \in UNION {Slices(npus'[c2]) : c2 \in Cards} : r2.id = x
    BY <2>2
  <2> QED BY <2>3 DEF SliceIds
<1> QED BY <1>2, <1>5, <1>6, <1>7, ListGrows

LEMMA ReleasingKeeps ==
  ASSUME IInv, NEW id, ReleaseSlice(id)
  PROVE  /\ \A x : IsAllocated(x)' => IsAllocated(x) /\ x # id
         /\ \A k \in Cards : \A s \in npus[k].allocated : s.id # id => s \in npus'[k].allocated
         /\ DOMAIN allocatable \subseteq DOMAIN allocatable'
         /\ \A c \in Cards : <<c, 0>> \in DOMAIN allocatable' => <<c, 0>> \in DOMAIN allocatable
<1>1. PICK k \in Cards : \E s \in npus[k].allocated : \E new : GivesBack(id, k, s, new)
  BY ReleaseShape
<1>7. PICK s \in npus[k].allocated : \E new : GivesBack(id, k, s, new)
  BY <1>1
<1>8. PICK new : GivesBack(id, k, s, new)
  BY <1>7
<1>2. /\ s.id = id /\ Changes(k, new) /\ new.allocated = npus[k].allocated \ {s}
      /\ UNCHANGED allocatable \/ Listed(k)
  BY <1>8 DEF GivesBack
<1>3. DOMAIN npus = Cards
  BY DEF IInv, TypeOK
<1>4. npus'[k] = new /\ \A c \in Cards \ {k} : npus'[c] = npus[c]
  BY <1>2, <1>3 DEF Changes
<1>5. ASSUME NEW x, IsAllocated(x)' PROVE IsAllocated(x) /\ x # id
  <2>6. PICK c \in Cards : \E r \in npus'[c].allocated : r.id = x
    BY <1>5 DEF IsAllocated
  <2>1. PICK r \in npus'[c].allocated : r.id = x
    BY <2>6
  <2>2. r \in npus[c].allocated
    BY <1>2, <1>4, <2>1
  <2>3. r # s \/ c # k
    BY <1>2, <1>4, <2>1
  <2>4. r.id[1] = c /\ s.id[1] = k
    BY <2>2, UsedNames DEF Slices
  <2>5. c = k => r.id # s.id
    BY <2>2, <2>3 DEF IInv, CardSafe, Slices
  <2> QED BY <1>2, <2>1, <2>2, <2>4, <2>5 DEF IsAllocated
<1>6. \A c \in Cards : \A r \in npus[c].allocated : r.id # id => r \in npus'[c].allocated
  BY <1>2, <1>4
<1> QED BY <1>2, <1>5, <1>6, ListGrows

-----------------------------------------------------------------------------
(* What a prepared claim has in use stays listed.                          *)
LEMMA AllocatedIsNamed == \A x : IsAllocated(x) => x \in SliceIds
BY ListedNames DEF IsAllocated, Slices

LEMMA NothingAllocated ==
  ASSUME FreshMemory
  PROVE  \A x : ~ IsAllocated(x)'
BY DEF FreshMemory, NewPhysicalNPU, IsAllocated

LEMMA ListedStep ==
  ASSUME StateInv, IInv, OwnInv, ListedInv, CallStep
  PROVE  ListedInv'
<1>1. Maps /\ CallInv /\ OwnInv /\ ListedInv
  BY DEF StateInv
<1>2. UNCHANGED sliceVars => \A x : IsAllocated(x)' => IsAllocated(x)
  BY DEF IsAllocated, sliceVars
<1>3. ASSUME NEW c \in Claims, Prepare(c) \/ Unprepare(c) PROVE ListedInv'
  <2>1. UNCHANGED <<checkpoint, sliceVars>>
        /\ \A d \in Claims : d \in ending => d \in ending' \/ checkpoint[d] = None
    BY <1>3 DEF Prepare, PrepareCannotRead, PrepareAgain, PrepareNew, Unprepare, UnprepareCannotRead,
         UnprepareUnknown, UnprepareKnown, files, outside
  <2>2. step' \in BeforeCheckpoint => done' = {}
    BY <1>3 DEF Prepare, PrepareCannotRead, PrepareAgain, PrepareNew, Unprepare, UnprepareCannotRead,
         UnprepareUnknown, UnprepareKnown, Goto, Return, BeforeCheckpoint
  <2> QED BY <1>1, <1>2, <2>1, <2>2 DEF ListedInv, PreparedStaysListed, sliceVars
<1>4. ASSUME NEW id \in todo, PrepareResult(id) PROVE ListedInv'
  <2>1. /\ step = "results" /\ UNCHANGED <<checkpoint, ending, claim>>
        /\ step' = "fail" \/ (done' = done \cup {id} /\ id \in DOMAIN allocatable)
    BY <1>4 DEF PrepareResult, files, Goto
  <2>2. DOMAIN allocatable \subseteq DOMAIN allocatable'
    BY <1>1, <1>4, AllocatingKeeps DEF PrepareResult, sliceVars
  <2>3. \A x : IsAllocated(x)' => IsAllocated(x) \/ (x = id /\ ~ Core)
    BY <1>1, <1>2, <1>4, AllocatingKeeps DEF PrepareResult
  <2>4. claim \in Claims /\ assigned[claim] # None /\ id \in assigned[claim].devices
        /\ checkpoint[claim] = None
    BY <1>1, <1>4, <2>1 DEF CallInv, OwnInv, Owned, Preparing, BeforeCheckpoint
  <2>5. ~ Core => \A c \in Claims : checkpoint[c] # None => id \notin checkpoint[c].devices
    BY <1>1, <2>4 DEF OwnInv, Owned
  <2>6. PreparedStaysListed'
    BY <1>1, <2>1, <2>2, <2>3, <2>5 DEF ListedInv, PreparedStaysListed
  <2>7. step' \in BeforeCheckpoint => \A x \in done' : IsAllocated(x)' => x \in DOMAIN allocatable'
    BY <1>1, <2>1, <2>2, <2>3 DEF ListedInv, BeforeCheckpoint
  <2> QED BY <2>6, <2>7 DEF ListedInv
<1>5. ASSUME NEW id \in todo, ReleaseDevice(id) PROVE ListedInv'
  <2>1. DOMAIN allocatable \subseteq DOMAIN allocatable' /\ \A x : IsAllocated(x)' => IsAllocated(x)
    BY <1>2, <1>5, ReleasingKeeps DEF ReleaseDevice, sliceVars
  <2>2. UNCHANGED <<checkpoint, ending>> /\ step' \notin BeforeCheckpoint
    BY <1>5 DEF ReleaseDevice, files, outside, BeforeCheckpoint
  <2> QED BY <1>1, <2>1, <2>2 DEF ListedInv, PreparedStaysListed
<1>6. CASE PrepareCheckpoint \/ UnprepareCheckpoint
  <2>1. UNCHANGED <<ending, sliceVars>> /\ step' \notin BeforeCheckpoint
    BY <1>6 DEF PrepareCheckpoint, UnprepareCheckpoint, outside, Goto, Return, BeforeCheckpoint
  <2>3. \/ UNCHANGED checkpoint
        \/ checkpoint' = [checkpoint EXCEPT ![claim] = None]
        \/ /\ step = "checkpoint"
           /\ checkpoint' = [checkpoint EXCEPT ![claim] = [devices |-> done, supported |-> TRUE]]
    BY <1>6 DEF PrepareCheckpoint, UnprepareCheckpoint
  <2>2. \A c \in Claims :
          \/ checkpoint'[c] \in {checkpoint[c], None}
          \/ step = "checkpoint" /\ checkpoint'[c].devices = done
    BY <1>1, <2>3 DEF Maps
  <2> QED BY <1>1, <1>2, <2>1, <2>2 DEF ListedInv, PreparedStaysListed, BeforeCheckpoint, sliceVars
<1>7. CASE PrepareConfigs \/ PrepareSpec \/ PreparePublish \/ DropSpec \/ PrepareFails
           \/ DevicesReleased \/ UnprepareSpec \/ UnprepareForget \/ UnprepareDir
  <2>1. UNCHANGED <<checkpoint, sliceVars>>
    BY <1>7 DEF PrepareConfigs, PrepareSpec, PreparePublish, DropSpec, PrepareFails,
         DevicesReleased, UnprepareSpec, UnprepareForget, UnprepareDir, files
  <2>2. \A d \in Claims : d \in ending => d \in ending' \/ checkpoint[d] = None
    BY <1>1, <1>7
       DEF PrepareConfigs, PrepareSpec, PreparePublish, DropSpec, PrepareFails, DevicesReleased,
         UnprepareSpec, UnprepareForget, UnprepareDir, outside, Goto, Return, CallInv
  <2>3. step' \in BeforeCheckpoint => step \in BeforeCheckpoint /\ done' = done
    BY <1>7 DEF PrepareConfigs, PrepareSpec, PreparePublish, DropSpec, PrepareFails,
         DevicesReleased, UnprepareSpec, UnprepareForget, UnprepareDir, Goto, Return,
         BeforeCheckpoint
  <2> QED BY <1>1, <1>2, <2>1, <2>2, <2>3 DEF ListedInv, PreparedStaysListed, sliceVars
<1>8. CASE SyncAllocatable
  <2>1. UNCHANGED <<checkpoint, ending>> /\ step' = "idle"
    BY <1>8 DEF SyncAllocatable, files, call, outside
  <2>2. \A x : IsAllocated(x)' =>
          IsAllocated(x) /\ (x \in DOMAIN allocatable => x \in DOMAIN allocatable')
    BY <1>8, AllocatedIsNamed DEF SyncAllocatable, PruneAllocatable, Kept, IsAllocated
  <2> QED BY <1>1, <2>1, <2>2 DEF ListedInv, PreparedStaysListed, BeforeCheckpoint
<1>9. ASSUME NEW c \in Claims, Scheduled(c) \/ Deallocate(c) PROVE ListedInv'
  <2>1. UNCHANGED <<checkpoint, ending, step, done, sliceVars>>
    BY <1>9 DEF Scheduled, Schedule, Deallocate, files, call
  <2> QED BY <1>1, <1>2, <2>1 DEF ListedInv, PreparedStaysListed, BeforeCheckpoint, sliceVars
<1> QED BY <1>3, <1>4, <1>5, <1>6, <1>7, <1>8, <1>9 DEF CallStep, Continue

LEMMA ListedMove ==
  ASSUME StateInv, IInv, OwnInv, ListedInv, StateMove
  PROVE  ListedInv'
<1>1. CASE ProcessEnds
  BY <1>1, NothingAllocated DEF ProcessEnds, ListedInv, PreparedStaysListed
<1>2. CASE /\ UNCHANGED <<files, assigned, ending, claim, todo, done, sliceVars>>
           /\ NewDeviceState \/ UNCHANGED <<step, stray>>
  <2>1. step' \in BeforeCheckpoint => step' = step
    BY <1>2 DEF NewDeviceState, Goto, BeforeCheckpoint
  <2>2. \A x : IsAllocated(x)' => IsAllocated(x)
    BY <1>2 DEF IsAllocated, sliceVars
  <2> QED BY <1>2, <2>1, <2>2 DEF ListedInv, PreparedStaysListed, files, sliceVars
<1> QED BY <1>1, <1>2, MoveKinds, ListedStep

ManagerInv == DriverInv /\ IInv /\ OwnInv /\ ListedInv

LEMMA ManagerInitHolds == DriverInit => ManagerInv
<1> SUFFICES ASSUME DriverInit PROVE ManagerInv
  OBVIOUS
<1>1. DriverInv /\ IInv /\ OwnInv
  BY DriverInitHolds, SlicesInitHold DEF DriverInit, SlicesInv
<1>2. \A x : ~ IsAllocated(x)
  BY DEF DriverInit, StateInit, Init, NewPhysicalNPU, IsAllocated
<1>3. ListedInv
  BY <1>2 DEF ListedInv, PreparedStaysListed
<1> QED BY <1>1, <1>3 DEF ManagerInv

LEMMA ManagerInductive == ManagerInv /\ [DriverNext]_allVars => ManagerInv'
<1> SUFFICES ASSUME ManagerInv, [DriverNext]_allVars PROVE ManagerInv'
  OBVIOUS
<1>1. StateMove
  BY StepMoves DEF ManagerInv, DriverInv, StateInv
<1> QED BY <1>1, DriverInductive, ManagerMove, OwnMove, ListedMove DEF ManagerInv, DriverInv

LEMMA ManagerHolds == DriverSpec => []ManagerInv
BY ManagerInitHolds, ManagerInductive, PTL DEF DriverSpec

(* A slice that a prepared claim has in use stays among the allocatable    *)
(* devices: nothing that other claims cut, give back or fail to get, and   *)
(* no pruning beside them, takes its name out of the list.                 *)
THEOREM UsedSlicesStayListed == DriverSpec => []PreparedStaysListed
<1>1. ManagerInv => PreparedStaysListed
  BY DEF ManagerInv, ListedInv
<1> QED BY <1>1, ManagerHolds, PTL

-----------------------------------------------------------------------------
(* Traditional mode: which cards are whole, and who holds what.            *)
LEMMA FreeMove ==
  ASSUME StateInv, IInv, FreeInv, StateMove
  PROVE  FreeInv'
<1>1. CASE ProcessEnds
  BY <1>1 DEF ProcessEnds, FreshMemory, NewPhysicalNPU, FullCardSlice, FreeInv
<1>2. CASE UNCHANGED npus
  BY <1>2 DEF FreeInv
<1>3. DOMAIN npus = Cards
  BY DEF IInv, TypeOK
<1>4. \A k \in Cards : npus[k].next # 0
  BY DEF IInv, CardSafe
<1>5. ASSUME NEW k \in Cards, NEW new, Changes(k, new),
             \A r \in new.available : r \in npus[k].available \cup {FreeSlice(k, npus[k].next), FullCardSlice(k)}
      PROVE  FreeInv'
  <2>1. npus'[k] = new /\ \A c \in Cards \ {k} : npus'[c] = npus[c]
    BY <1>3, <1>5 DEF Changes
  <2>2. \A r \in new.available : r.id[2] = 0 => r.type = "NPU"
    BY <1>4, <1>5 DEF FreeInv, FreeSlice, FullCardSlice
  <2> QED BY <2>1, <2>2 DEF FreeInv
<1>6. ASSUME NEW id, NEW t, AllocateSlice(id, t) PROVE FreeInv'
  <2>1. PICK k \in Cards : \E s \in npus[k].available : \E new, taken :
          Takes(id, t, k, s, new, taken)
    BY <1>6, AllocationShape
  <2> QED BY <1>5, <2>1 DEF Takes
<1>7. ASSUME NEW id, ReleaseSlice(id) PROVE FreeInv'
  <2>1. PICK k \in Cards : \E s \in npus[k].allocated : \E new : GivesBack(id, k, s, new)
    BY <1>7, ReleaseShape
  <2> QED BY <1>5, <2>1 DEF GivesBack
<1>8. CASE CallStep
  BY <1>2, <1>6, <1>7, <1>8, CallStepsSlices DEF SliceStep, PruneAllocatable, sliceVars
<1> QED BY <1>1, <1>2, <1>8, MoveKinds DEF sliceVars

LEMMA HeldStep ==
  ASSUME ~ Core, StateInv, IInv, OwnInv, HeldInv, CallStep
  PROVE  HeldInv'
<1>1. Maps /\ CallInv /\ HeldInv
  BY DEF StateInv
<1>2. UNCHANGED npus => \A x : IsAllocated(x)' => IsAllocated(x)
  BY DEF IsAllocated
<1>3. ASSUME NEW c \in Claims, Prepare(c) \/ Unprepare(c) PROVE HeldInv'
  <2>1. UNCHANGED <<checkpoint, stray, npus>> /\ step = "idle"
    BY <1>3 DEF Prepare, PrepareCannotRead, PrepareAgain, PrepareNew, Unprepare, UnprepareCannotRead,
         UnprepareUnknown, UnprepareKnown, files, outside, sliceVars
  <2>2. /\ step' = "results" => done' = {}
        /\ step' \in {"idle", "results", "fail", "release"}
        /\ step' = "release" => claim' = c /\ checkpoint[c] # None /\ todo' = checkpoint[c].devices
    BY <1>3 DEF Prepare, PrepareCannotRead, PrepareAgain, PrepareNew, Unprepare, UnprepareCannotRead,
         UnprepareUnknown, UnprepareKnown, Goto, Return
  <2> QED BY <1>1, <1>2, <2>1, <2>2 DEF HeldInv, Holds, BeforeCheckpoint
<1>4. ASSUME NEW id \in todo, PrepareResult(id) PROVE HeldInv'
  <2>1. \A x : IsAllocated(x)' => IsAllocated(x) \/ x = id
    BY <1>2, <1>4, AllocatingKeeps DEF PrepareResult, sliceVars, StateInv
  <2>2. step = "results" /\ UNCHANGED <<checkpoint, claim>>
    BY <1>4 DEF PrepareResult, files
  <2>3. \/ /\ step' = "fail" /\ stray' = stray \cup CardsOf(done \cup {id})
        \/ /\ step' \in {"configs", "results"} /\ UNCHANGED stray
           /\ todo' = todo \ {id} /\ done' = done \cup {id}
    BY <1>4 DEF PrepareResult, Goto
  <2>4. CASE step' = "fail"
    <3>1. \A x \in done \cup {id} : x[1] \in stray'
      BY <2>3, <2>4 DEF CardsOf
    <3>2. stray \subseteq stray'
      BY <2>3, <2>4
    <3> QED BY <1>1, <2>1, <2>2, <2>4, <3>1, <3>2 DEF HeldInv, Holds
  <2>5. CASE step' # "fail"
    BY <1>1, <2>1, <2>2, <2>3, <2>5 DEF HeldInv, Holds, BeforeCheckpoint
  <2> QED BY <2>4, <2>5
<1>5. ASSUME NEW id \in todo, ReleaseDevice(id) PROVE HeldInv'
  <2>1. \A x : IsAllocated(x)' => IsAllocated(x) /\ x # id
    BY <1>2, <1>5, ReleasingKeeps DEF ReleaseDevice, sliceVars
  <2>2. /\ step \in {"rollback", "release"} /\ todo' = todo \ {id}
        /\ UNCHANGED <<checkpoint, stray, step, claim, done>>
    BY <1>5 DEF ReleaseDevice, files, outside
  <2> QED BY <1>1, <2>1, <2>2 DEF HeldInv, Holds, BeforeCheckpoint
<1>6. CASE PrepareCheckpoint
  <2>1. /\ step = "checkpoint" /\ checkpoint[claim] = None
        /\ step' \in {"publish", "dropSpec"} /\ UNCHANGED <<done, stray, npus>>
        /\ step' = "publish" => \A c \in Claims \ {claim} : checkpoint'[c] = checkpoint[c]
        /\ step' = "publish" => /\ checkpoint' = [checkpoint EXCEPT ![claim] = [devices |-> done, supported |-> TRUE]]
                                /\ claim \in Claims
        /\ step' = "dropSpec" => UNCHANGED checkpoint
    BY <1>1, <1>6 DEF PrepareCheckpoint, Goto, outside, sliceVars, CallInv, Preparing, BeforeCheckpoint, Maps
  <2>2. step' = "publish" => checkpoint'[claim].devices = done /\ claim \in Claims
    BY <1>1, <2>1 DEF Maps
  <2>3. step' = "publish" => checkpoint'[claim] # None
    <3>1. [devices |-> done, supported |-> TRUE] \in Prepared
      BY DEF StateInv, StateTypeOK, Prepared
    <3> QED BY <1>1, <2>1, <3>1, DeviceStateAssumption DEF Maps
  <2> QED BY <1>1, <1>2, <2>1, <2>2, <2>3 DEF HeldInv, Holds, BeforeCheckpoint
<1>7. CASE UnprepareCheckpoint
  <2>1. /\ step = "uncheckpoint" /\ step' \in {"forget", "idle"} /\ UNCHANGED <<stray, npus>>
        /\ \A c \in Claims \ {claim} : checkpoint'[c] = checkpoint[c]
    BY <1>1, <1>7 DEF UnprepareCheckpoint, Goto, Return, outside, sliceVars, Maps
  <2>2. \A x : IsAllocated(x) => checkpoint[claim] # None /\ x \notin checkpoint[claim].devices
    BY <1>1, <2>1 DEF HeldInv
  <2> QED BY <1>1, <1>2, <2>1, <2>2 DEF HeldInv, Holds, BeforeCheckpoint
<1>8. CASE PrepareConfigs
  <2>1. /\ step = "configs" /\ UNCHANGED <<checkpoint, claim, todo, done, npus>>
        /\ \/ step' = "fail" /\ stray' = stray \cup CardsOf(done)
           \/ step' = "spec" /\ UNCHANGED stray
    BY <1>8 DEF PrepareConfigs, Goto, files, sliceVars
  <2>2. step' = "fail" => stray \subseteq stray' /\ \A x \in done : x[1] \in stray'
    BY <2>1 DEF CardsOf
  <2> QED BY <1>1, <1>2, <2>1, <2>2 DEF HeldInv, Holds, BeforeCheckpoint
<1>9. CASE PrepareSpec \/ DropSpec
  <2>1. /\ step \in {"spec", "dropSpec"} /\ UNCHANGED <<checkpoint, claim, done, stray, npus>>
        /\ \/ step' = "rollback" /\ todo' = done
           \/ step' = "checkpoint"
    BY <1>9 DEF PrepareSpec, DropSpec, Goto, outside, sliceVars
  <2> QED BY <1>1, <1>2, <2>1 DEF HeldInv, Holds, BeforeCheckpoint
<1>10. CASE PreparePublish \/ PrepareFails \/ DevicesReleased \/ UnprepareSpec \/ UnprepareForget
            \/ UnprepareDir
  <2>1. /\ UNCHANGED <<checkpoint, stray, npus>>
        /\ \/ step \in {"publish", "fail", "unspec", "forget", "rmdir"}
              /\ step' = "idle"
           \/ step = "rollback" /\ todo = {} /\ step' = "fail"
           \/ step = "release" /\ todo = {} /\ step' = "unspec" /\ UNCHANGED claim
           \/ step = "unspec" /\ step' = "uncheckpoint" /\ UNCHANGED claim
    BY <1>10 DEF PreparePublish, PrepareFails, DevicesReleased, UnprepareSpec, UnprepareForget,
         UnprepareDir, Goto, Return, files, outside, sliceVars
  <2> QED BY <1>1, <1>2, <2>1 DEF HeldInv, Holds, BeforeCheckpoint
<1>11. CASE \/ SyncAllocatable
            \/ \E c \in Claims : Scheduled(c) \/ Deallocate(c)
  <2>1. UNCHANGED <<checkpoint, stray, npus, step, claim, todo, done>>
    BY <1>11 DEF SyncAllocatable, PruneAllocatable, Scheduled, Schedule, Deallocate, files, call,
                 outside, sliceVars
  <2> QED BY <1>1, <1>2, <2>1 DEF HeldInv, Holds, BeforeCheckpoint
<1> QED BY <1>3, <1>4, <1>5, <1>6, <1>7, <1>8, <1>9, <1>10, <1>11 DEF CallStep, Continue

LEMMA HeldMove ==
  ASSUME ~ Core, StateInv, IInv, OwnInv, HeldInv, StateMove
  PROVE  HeldInv'
<1>1. CASE ProcessEnds
  BY <1>1, NothingAllocated DEF ProcessEnds, HeldInv
<1>2. UNCHANGED npus => \A x : IsAllocated(x)' => IsAllocated(x)
  BY DEF IsAllocated
<1>3. CASE /\ UNCHANGED <<files, assigned, ending, claim, todo, done, sliceVars>>
           /\ UNCHANGED <<step, stray>>
  BY <1>2, <1>3 DEF files, sliceVars, HeldInv, Holds, BeforeCheckpoint
<1>4. CASE NewDeviceState
  <2>1. step = "down" /\ step' = "idle" /\ UNCHANGED npus
    BY <1>4 DEF NewDeviceState, Goto, sliceVars
  <2> QED BY <1>2, <2>1 DEF HeldInv
<1> QED BY <1>1, <1>3, <1>4, MoveKinds, HeldStep

(* The name of a whole card leaves the slices only with its own release.   *)
LEMMA NameGone ==
  ASSUME IInv, FreeInv, NEW id, ReleaseSlice(id), NEW k \in Cards,
         <<k, 0>> \in SliceIds, <<k, 0>> \notin SliceIds'
  PROVE  id = <<k, 0>>
<1>1. PICK j \in Cards : \E s \in npus[j].allocated : \E new : GivesBack(id, j, s, new)
  BY ReleaseShape
<1>2. PICK s \in npus[j].allocated : \E new : GivesBack(id, j, s, new)
  BY <1>1
<1>3. PICK new : GivesBack(id, j, s, new)
  BY <1>2
<1>4. s.id = id /\ Changes(j, new) /\ new.allocated = npus[j].allocated \ {s}
  BY <1>3 DEF GivesBack
<1>5. DOMAIN npus = Cards
  BY DEF IInv, TypeOK
<1>6. npus'[j] = new /\ \A c \in Cards \ {j} : npus'[c] = npus[c]
  BY <1>4, <1>5 DEF Changes
<1>7. PICK c \in Cards : \E r \in Slices(npus[c]) : r.id = <<k, 0>>
  BY ListedNames
<1>8. PICK r \in Slices(npus[c]) : r.id = <<k, 0>>
  BY <1>7
<1>9. \A d \in Cards : \A t \in Slices(npus'[d]) : t.id # <<k, 0>>
  <2>1. ASSUME NEW d \in Cards, NEW t \in Slices(npus'[d]), t.id = <<k, 0>> PROVE FALSE
    <3>1. t \in UNION {Slices(npus'[e]) : e \in Cards}
      BY <2>1
    <3> QED BY <2>1, <3>1 DEF SliceIds
  <2> QED BY <2>1
<1>10. c = j
  BY <1>6, <1>8, <1>9
<1>11. r \notin npus[j].available
  <2>1. SUFFICES ASSUME r \in npus[j].available PROVE FALSE
    OBVIOUS
  <2>2. r.type = "NPU"
    BY <1>8, <2>1 DEF FreeInv
  <2>3. r \in Slices(npus[j]) /\ s \in Slices(npus[j])
    BY <2>1 DEF Slices
  <2>4. r = s
    BY <2>2, <2>3 DEF IInv, CardSafe
  <2> QED BY <2>1, <2>4 DEF IInv, CardSafe
<1>12. r \in npus[j].allocated
  BY <1>8, <1>10, <1>11 DEF Slices
<1>13. r = s
  <2>1. r \notin new.allocated
    BY <1>6, <1>8, <1>9 DEF Slices
  <2> QED BY <1>4, <1>12, <2>1
<1> QED BY <1>4, <1>8, <1>13

LEMMA StaleStep ==
  ASSUME ~ Core, DriverInv, IInv, OwnInv, RpcInv, FreeInv, StaleInv, [DriverNext]_allVars
  PROVE  StaleInv'
<1>1. ProcessTypes /\ CallInv /\ Maps
  BY DEF DriverInv, StateInv
<1>2. ASSUME UNCHANGED sliceVars PROVE \A k \in Cards : Stale(k)' => Stale(k)
  BY <1>2 DEF Stale, SliceIds, sliceVars
<1>3. CASE \/ StartServing \/ StartReturns \/ MainPublish \/ UNCHANGED allVars
  <2>1. UNCHANGED <<sliceVars, rpc, rpcList, pending, assigned, todo>>
        /\ (step' = "results" => step = "results")
    BY <1>3 DEF StartServing, StartReturns, MainPublish, NewDeviceState, Goto, call, outside,
                allVars, vars, driverVars
  <2> QED BY <1>2, <2>1 DEF StaleInv
<1>4. CASE MainSync \/ RpcSync
  <2>1. npus' = npus /\ allocatable' = Kept(allocatable, SliceIds)
    BY <1>4 DEF MainSync, RpcSync, Sync, Synced
  <2>2. \A k \in Cards : ~ Stale(k)'
    BY <2>1 DEF Stale, Kept, SliceIds
  <2> QED BY <2>2 DEF StaleInv
<1>5. CASE HealthCheck \/ (\E C \in SUBSET Claims : BeginPrepare(C) \/ BeginUnprepare(C)) \/ RpcPublish
  <2>1. UNCHANGED sliceVars /\ (rpc = None \/ rpcList # None)
    BY <1>5 DEF HealthCheck, BeginPrepare, BeginUnprepare, RpcPublish, vars
  <2> QED BY <1>2, <2>1 DEF StaleInv
<1>6. ASSUME NEW c \in pending, NextClaim(c) PROVE StaleInv'
  <2>1. UNCHANGED <<sliceVars, rpc, rpcList, assigned>> /\ pending' = pending \ {c}
    BY <1>6 DEF NextClaim, Prepare, PrepareCannotRead, PrepareAgain, PrepareNew, Unprepare,
                UnprepareCannotRead, UnprepareUnknown, UnprepareKnown, outside
  <2>2. step' = "results" => rpc = "prepare" /\ todo' = assigned[c].devices
    BY <1>6 DEF NextClaim, Prepare, PrepareCannotRead, PrepareAgain, PrepareNew, Unprepare,
                UnprepareCannotRead, UnprepareUnknown, UnprepareKnown, Goto, Return
  <2> QED BY <1>2, <1>6, <2>1, <2>2 DEF StaleInv
<1>7. ASSUME NEW id \in todo, PrepareResult(id), UNCHANGED driverVars PROVE StaleInv'
  <2>1. /\ step = "results" /\ todo' \subseteq todo /\ UNCHANGED <<rpc, rpcList, pending, assigned>>
    BY <1>7 DEF PrepareResult, Goto, driverVars
  <2>2. ASSUME NEW t, AllocateSlice(id, t) PROVE \A k \in Cards : Stale(k)' => Stale(k)
    BY <2>2, AllocatingKeeps DEF Stale
  <2>3. \A k \in Cards : Stale(k)' => Stale(k)
    BY <1>2, <1>7, <2>2 DEF PrepareResult
  <2> QED BY <2>1, <2>3 DEF StaleInv
<1>8. ASSUME NEW id \in todo, ReleaseDevice(id), UNCHANGED driverVars PROVE StaleInv'
  <2>1. /\ step \in {"rollback", "release"} /\ step' = step
        /\ UNCHANGED <<rpc, rpcList, pending, assigned>>
    BY <1>8 DEF ReleaseDevice, driverVars, outside
  <2>2. rpc # None /\ rpcList = None /\ claim \notin pending /\ claim \in Claims
    BY <1>1, <2>1 DEF RpcInv, CallInv
  <2>3. ASSUME NEW k \in Cards, Stale(k)', NEW c \in pending, rpc = "prepare"
        PROVE  <<k, 0>> \notin assigned[c].devices
    <3>1. CASE Stale(k)
      BY <2>3, <3>1 DEF StaleInv
    <3>2. CASE ~ Stale(k)
      <4>1. ReleaseSlice(id)
        BY <1>2, <1>8, <2>3, <3>2 DEF ReleaseDevice
      <4>2. <<k, 0>> \in SliceIds /\ <<k, 0>> \notin SliceIds'
        BY <2>3, <3>2, <4>1, ReleasingKeeps DEF Stale
      <4>3. id = <<k, 0>>
        BY <4>1, <4>2, NameGone
      <4>4. assigned[claim] # None /\ id \in assigned[claim].devices
        BY <1>8, <2>1 DEF OwnInv, Owned, Preparing, BeforeCheckpoint
      <4>5. c \in Claims /\ c # claim /\ assigned[c] # None
        BY <1>1, <2>2, <2>3 DEF ProcessTypes, RpcInv
      <4> QED BY <2>2, <4>3, <4>4, <4>5 DEF OwnInv
    <3> QED BY <3>1, <3>2
  <2> QED BY <2>1, <2>2, <2>3 DEF StaleInv
<1>9. CASE /\ UNCHANGED driverVars
           /\ \/ PrepareConfigs \/ PrepareSpec \/ PrepareCheckpoint \/ PreparePublish
              \/ DropSpec \/ PrepareFails \/ DevicesReleased
              \/ UnprepareSpec \/ UnprepareCheckpoint \/ UnprepareForget \/ UnprepareDir
  <2>1. UNCHANGED <<sliceVars, rpc, rpcList, pending, assigned>> /\ step' # "results"
    BY <1>9
       DEF PrepareConfigs, PrepareSpec, PrepareCheckpoint, PreparePublish, DropSpec, PrepareFails,
           DevicesReleased, UnprepareSpec, UnprepareCheckpoint, UnprepareForget, UnprepareDir,
           Goto, Return, outside, driverVars
  <2> QED BY <1>2, <2>1 DEF StaleInv
<1>10. CASE DriverCrash \/ PublishWithoutHelper
  <2>1. FreshMemory
    BY <1>10 DEF DriverCrash, PublishWithoutHelper, ProcessGone
  <2>2. ASSUME NEW k \in Cards PROVE <<k, 0>> \in SliceIds'
    <3>1. FullCardSlice(k) \in Slices(npus'[k])
      BY <2>1 DEF FreshMemory, NewPhysicalNPU, Slices
    <3>2. FullCardSlice(k) \in UNION {Slices(npus'[c]) : c \in Cards}
      BY <3>1
    <3> QED BY <3>2 DEF SliceIds, FullCardSlice
  <2> QED BY <2>2 DEF StaleInv, Stale
<1>11. ASSUME NEW c \in Claims, ClaimScheduled(c) \/ ClaimDeallocated(c) PROVE StaleInv'
  <2>1. /\ UNCHANGED <<sliceVars, step, todo, rpc, rpcList, pending>>
        /\ \A d \in pending : assigned[d] # None => assigned'[d] = assigned[d]
    BY <1>1, <1>11 DEF ClaimScheduled, ClaimDeallocated, Schedule, Deallocate, driverVars, call,
                       ProcessTypes, Maps
  <2> QED BY <1>2, <2>1 DEF StaleInv, RpcInv
<1> QED BY <1>3, <1>4, <1>5, <1>6, <1>7, <1>8, <1>9, <1>10, <1>11
        DEF DriverNext, Serve, ContinueClaim, Continue

(* A listed name that no slice is free under is the name of a slice in     *)
(* use: its holder kept it, or the manager lost track of its card.         *)
LEMMA WholeTaken ==
  ASSUME ~ Core, StateInv, IInv, OwnInv, HeldInv, FreeInv, StaleInv, WholeInv,
         NEW id \in todo, PrepareResult(id), Whole(claim), id \in DOMAIN allocatable
  PROVE  id[1] \in stray' \/ WholeSlice(id)'
<1>1. step = "results" /\ claim \in Claims /\ checkpoint[claim] = None /\ Owned(claim, todo)
  BY DEF PrepareResult, StateInv, CallInv, OwnInv, Preparing, BeforeCheckpoint
<1>2. id \in assigned[claim].devices /\ assigned[claim].template = NoTemplate /\ id[2] = 0
  BY <1>1 DEF Owned, Whole, WholeInv
<1>3. id \in Ids
  BY DEF StateInv, StateTypeOK
<1>4. PICK k \in Cards : id = <<k, 0>>
  BY <1>2, <1>3 DEF Ids
<1>5. CASE AllocateSlice(id, NoTemplate)
  <2>1. PICK j \in Cards : \E s \in npus[j].available : \E new, taken :
          Takes(id, NoTemplate, j, s, new, taken)
    BY <1>5, AllocationShape
  <2>2. PICK s \in npus[j].available : \E new, taken : Takes(id, NoTemplate, j, s, new, taken)
    BY <2>1
  <2>3. PICK new, taken : Takes(id, NoTemplate, j, s, new, taken)
    BY <2>2
  <2>4. s.id = id /\ Changes(j, new) /\ s \in new.allocated
    BY <2>3 DEF Takes, WantsFullCard
  <2>5. s.type = "NPU"
    BY <1>2, <2>4 DEF FreeInv
  <2>6. id[1] = j
    BY <2>4, UsedNames DEF Slices
  <2>7. s \in npus'[j].allocated
    BY <2>4 DEF Changes, IInv, TypeOK
  <2> QED BY <2>4, <2>5, <2>6, <2>7 DEF WholeSlice
<1>6. CASE ~ Allocates(id, NoTemplate)
  <2>1. \A c \in Cards : \A s \in npus[c].available : s.id # id
    BY <1>6 DEF Allocates, WantsFullCard
  <2>2. id \in SliceIds
    BY <1>1, <1>4 DEF StaleInv, Stale
  <2>3. IsAllocated(id)
    BY <2>1, <2>2, ListedNames DEF Slices, IsAllocated
  <2>4. \A c \in Claims : checkpoint[c] # None => id \notin checkpoint[c].devices
    BY <1>1, <1>2 DEF OwnInv, Owned
  <2>5. ~ Holds(id)
    BY <1>1, <2>4 DEF Holds, HeldInv
  <2>6. id[1] \in stray
    BY <1>3, <2>3, <2>5 DEF HeldInv
  <2> QED BY <2>6 DEF PrepareResult
<1> QED BY <1>2, <1>5, <1>6 DEF PrepareResult

LEMMA WholeStep ==
  ASSUME ~ Core, StateInv, IInv, OwnInv, HeldInv, FreeInv, StaleInv, WholeInv, CallStep
  PROVE  WholeInv'
<1>1. Maps /\ CallInv /\ WholeInv
  BY DEF StateInv
<1>2. ASSUME UNCHANGED npus, stray \subseteq stray'
      PROVE  \A ids : HasWhole(ids) => HasWhole(ids)'
  BY <1>2 DEF HasWhole, WholeSlice
<1>3. ASSUME NEW c \in Claims, Prepare(c) \/ Unprepare(c) PROVE WholeInv'
  <2>1. UNCHANGED <<checkpoint, assigned, stray, npus>> /\ step = "idle"
        /\ \A d \in Claims : d \in ending => d \in ending' \/ checkpoint[d] = None
    BY <1>3 DEF Prepare, PrepareCannotRead, PrepareAgain, PrepareNew, Unprepare, UnprepareCannotRead,
         UnprepareUnknown, UnprepareKnown, files, outside, sliceVars
  <2>2. step' \in BeforeCheckpoint => done' = {}
    BY <1>3 DEF Prepare, PrepareCannotRead, PrepareAgain, PrepareNew, Unprepare, UnprepareCannotRead,
         UnprepareUnknown, UnprepareKnown, Goto, Return, BeforeCheckpoint
  <2>3. HasWhole({})'
    BY DEF HasWhole
  <2> QED BY <1>1, <1>2, <2>1, <2>2, <2>3 DEF WholeInv, Whole
<1>4. ASSUME NEW id \in todo, PrepareResult(id) PROVE WholeInv'
  <2>1. /\ step = "results" /\ UNCHANGED <<checkpoint, assigned, ending, claim>>
        /\ step' # "down" /\ stray \subseteq stray'
        /\ step' = "fail" \/ (id \in DOMAIN allocatable /\ done' = done \cup {id})
    BY <1>4 DEF PrepareResult, files, Goto
  <2>2. \A x \in Ids : WholeSlice(x) => WholeSlice(x)'
    <3>1. \A k \in Cards : npus[k].allocated \subseteq npus'[k].allocated
      BY <1>4, AllocatingKeeps DEF PrepareResult, sliceVars
    <3> QED BY <3>1 DEF WholeSlice, Ids
  <2>3. \A ids \in SUBSET Ids : HasWhole(ids) => HasWhole(ids)'
    BY <2>1, <2>2 DEF HasWhole
  <2>4. done \subseteq Ids /\ \A c \in Claims : checkpoint[c] # None => checkpoint[c].devices \in SUBSET Ids
    BY DEF StateInv, StateTypeOK, Prepared
  <2>5. step' \in BeforeCheckpoint /\ Whole(claim) => HasWhole(done)'
    <3> SUFFICES ASSUME step' \in BeforeCheckpoint, Whole(claim) PROVE HasWhole(done)'
      OBVIOUS
    <3>1. \A x \in done : x[1] \in stray' \/ WholeSlice(x)'
      BY <1>1, <2>1, <2>2, <2>4 DEF WholeInv, HasWhole, BeforeCheckpoint
    <3>2. id[1] \in stray' \/ WholeSlice(id)'
      BY <1>4, <2>1, WholeTaken DEF BeforeCheckpoint
    <3>3. done' = done \cup {id}
      BY <2>1 DEF BeforeCheckpoint
    <3> QED BY <2>1, <3>1, <3>2, <3>3 DEF HasWhole
  <2> QED BY <1>1, <2>1, <2>3, <2>4, <2>5 DEF WholeInv, Whole
<1>5. ASSUME NEW id \in todo, ReleaseDevice(id) PROVE WholeInv'
  <2>1. /\ step \in {"rollback", "release"} /\ UNCHANGED <<checkpoint, assigned, ending, stray, step>>
    BY <1>5 DEF ReleaseDevice, files, outside
  <2>2. claim \in Claims /\ assigned[claim] # None /\ id \in assigned[claim].devices
    BY <1>1, <1>5, <2>1 DEF CallInv, OwnInv, Owned, Preparing, BeforeCheckpoint
  <2>3. ASSUME NEW c \in Claims, checkpoint[c] # None, c \notin ending
        PROVE  id \notin checkpoint[c].devices
    <3>1. c # claim
      BY <1>1, <2>1, <2>3 DEF CallInv, Preparing, Unpreparing
    <3>2. checkpoint[c].devices \subseteq assigned[c].devices /\ assigned[c] # None
      BY <2>3 DEF OwnInv, Owned
    <3> QED BY <2>2, <3>1, <3>2 DEF OwnInv
  <2>4. \A x \in Ids : WholeSlice(x) /\ x # id => WholeSlice(x)'
    <3>1. \A k \in Cards : \A s \in npus[k].allocated : s.id # id => s \in npus'[k].allocated
      BY <1>5, ReleasingKeeps DEF ReleaseDevice, sliceVars
    <3> QED BY <3>1 DEF WholeSlice, Ids
  <2>5. \A c \in Claims : checkpoint[c] # None => checkpoint[c].devices \in SUBSET Ids
    BY DEF StateInv, StateTypeOK, Prepared
  <2>6. \A ids \in SUBSET Ids : HasWhole(ids) /\ id \notin ids => HasWhole(ids)'
    BY <2>1, <2>4 DEF HasWhole
  <2> QED BY <1>1, <2>1, <2>3, <2>5, <2>6 DEF WholeInv, Whole, BeforeCheckpoint
<1>6. CASE PrepareCheckpoint \/ UnprepareCheckpoint
  <2>1. UNCHANGED <<assigned, ending, stray, npus>> /\ step # "down" /\ step' \notin BeforeCheckpoint
    BY <1>6 DEF PrepareCheckpoint, UnprepareCheckpoint, outside, sliceVars, Goto, Return,
                BeforeCheckpoint
  <2>2. \/ UNCHANGED checkpoint
        \/ checkpoint' = [checkpoint EXCEPT ![claim] = None]
        \/ /\ step = "checkpoint"
           /\ checkpoint' = [checkpoint EXCEPT ![claim] = [devices |-> done, supported |-> TRUE]]
    BY <1>6 DEF PrepareCheckpoint, UnprepareCheckpoint
  <2>3. \A c \in Claims :
          \/ checkpoint'[c] \in {checkpoint[c], None}
          \/ step = "checkpoint" /\ c = claim /\ checkpoint'[c].devices = done
    BY <1>1, <2>2 DEF Maps
  <2> QED BY <1>1, <1>2, <2>1, <2>3 DEF WholeInv, Whole, BeforeCheckpoint
<1>7. CASE PrepareConfigs \/ PrepareSpec \/ PreparePublish \/ DropSpec \/ PrepareFails
           \/ DevicesReleased \/ UnprepareSpec \/ UnprepareForget \/ UnprepareDir
  <2>1. UNCHANGED <<checkpoint, assigned, npus>> /\ stray \subseteq stray' /\ step # "down"
    BY <1>7 DEF PrepareConfigs, PrepareSpec, PreparePublish, DropSpec, PrepareFails,
         DevicesReleased, UnprepareSpec, UnprepareForget, UnprepareDir, files, outside, sliceVars
  <2>2. \A d \in Claims : d \in ending => d \in ending' \/ checkpoint[d] = None
    BY <1>1, <1>7
       DEF PrepareConfigs, PrepareSpec, PreparePublish, DropSpec, PrepareFails, DevicesReleased,
         UnprepareSpec, UnprepareForget, UnprepareDir, outside, Goto, Return, CallInv
  <2>3. step' \in BeforeCheckpoint => step \in BeforeCheckpoint /\ done' = done /\ claim' = claim
    BY <1>7 DEF PrepareConfigs, PrepareSpec, PreparePublish, DropSpec, PrepareFails,
         DevicesReleased, UnprepareSpec, UnprepareForget, UnprepareDir, Goto, Return,
         BeforeCheckpoint
  <2> QED BY <1>1, <1>2, <2>1, <2>2, <2>3 DEF WholeInv, Whole
<1>8. CASE SyncAllocatable
  <2>1. UNCHANGED <<checkpoint, assigned, ending, stray, npus, step, claim, done>>
    BY <1>8 DEF SyncAllocatable, PruneAllocatable, files, call, outside
  <2> QED BY <1>1, <1>2, <2>1 DEF WholeInv, Whole, BeforeCheckpoint
<1>9. ASSUME NEW c \in Claims, Scheduled(c) \/ Deallocate(c) PROVE WholeInv'
  <2>1. UNCHANGED <<checkpoint, ending, stray, npus, step, claim, done>>
    BY <1>9 DEF Scheduled, Schedule, Deallocate, files, call, sliceVars
  <2>2. /\ checkpoint[c] = None /\ \A d \in Claims \ {c} : assigned'[d] = assigned[d]
        /\ step \in BeforeCheckpoint => c # claim
    <3>1. CASE Deallocate(c)
      BY <1>1, <3>1 DEF Deallocate, Maps, BeforeCheckpoint
    <3>2. CASE Scheduled(c)
      BY <1>1, <3>2 DEF Scheduled, Schedule, Maps, CallInv, Preparing
    <3> QED BY <1>9, <3>1, <3>2
  <2>3. Whole(c)' => \A id \in assigned'[c].devices : id[2] = 0
    <3>1. CASE Deallocate(c)
      BY <1>1, <3>1 DEF Deallocate, Maps, Whole
    <3>2. ASSUME NEW offered, Schedule(c, offered) PROVE Whole(c)' => \A id \in assigned'[c].devices : id[2] = 0
      <4>1. PICK D \in SUBSET DOMAIN offered, t \in Templates \cup {NoTemplate},
                 cfg \in Configs :
              /\ \A id \in D : Requestable(offered, id, t)
              /\ assigned' = [assigned EXCEPT ![c] = [devices |-> D, template |-> t,
                                                      config |-> cfg]]
        BY <3>2 DEF Schedule
      <4>2. assigned'[c] = [devices |-> D, template |-> t, config |-> cfg]
        BY <1>1, <4>1 DEF Maps
      <4> QED BY <4>1, <4>2 DEF Whole, Requestable
    <3> QED BY <1>9, <3>1, <3>2 DEF Scheduled
  <2>4. \A d \in Claims \ {c} : Whole(d)' <=> Whole(d)
    BY <2>2 DEF Whole
  <2>5. step \in BeforeCheckpoint => claim \in Claims \ {c}
    BY <1>1, <2>2 DEF CallInv, BeforeCheckpoint
  <2> QED BY <1>1, <1>2, <2>1, <2>2, <2>3, <2>4, <2>5 DEF WholeInv
<1> QED BY <1>3, <1>4, <1>5, <1>6, <1>7, <1>8, <1>9 DEF CallStep, Continue

LEMMA WholeMove ==
  ASSUME ~ Core, StateInv, IInv, OwnInv, HeldInv, FreeInv, StaleInv, WholeInv, StateMove
  PROVE  WholeInv'
<1>1. CASE ProcessEnds
  BY <1>1 DEF ProcessEnds, outside, WholeInv, Whole, BeforeCheckpoint
<1>2. CASE NewDeviceState /\ UNCHANGED <<files, assigned, ending, claim, todo, done, sliceVars>>
  <2>1. step' = "idle" /\ UNCHANGED checkpoint
        /\ stray' = CardsOf(UNION {checkpoint[c].devices : c \in {d \in Claims : checkpoint[d] # None}})
    BY <1>2 DEF NewDeviceState, Goto, files
  <2>2. ASSUME NEW c \in Claims, checkpoint[c] # None PROVE HasWhole(checkpoint[c].devices)'
    BY <2>1, <2>2 DEF HasWhole, CardsOf
  <2> QED BY <1>2, <2>1, <2>2 DEF WholeInv, Whole, BeforeCheckpoint, HasWhole, WholeSlice
<1>3. CASE UNCHANGED <<files, assigned, ending, claim, todo, done, sliceVars, step, stray>>
  BY <1>3 DEF files, sliceVars, WholeInv, Whole, HasWhole, WholeSlice, BeforeCheckpoint
<1> QED BY <1>1, <1>2, <1>3, MoveKinds, WholeStep

ProcessInv == ManagerInv /\ RpcInv /\ CardsInv

LEMMA ProcessInitHolds == DriverInit => ProcessInv
<1> SUFFICES ASSUME DriverInit PROVE ProcessInv
  OBVIOUS
<1>1. ManagerInv
  BY ManagerInitHolds
<1>2. StateInit /\ Init /\ step = "down" /\ rpc = None
  BY DEF DriverInit, StateInit
<1>3. RpcInv
  BY <1>2, RpcAssumption DEF RpcInv, Preparing, BeforeCheckpoint, Unpreparing
<1>4. HeldInv
  <2>1. \A x : ~ IsAllocated(x)
    BY <1>2 DEF Init, NewPhysicalNPU, IsAllocated
  <2> QED BY <1>2, <2>1 DEF HeldInv
<1>5. FreeInv
  BY <1>2 DEF Init, NewPhysicalNPU, FullCardSlice, FreeInv
<1>6. StaleInv
  <2>1. ASSUME NEW k \in Cards PROVE <<k, 0>> \in SliceIds
    <3>1. FullCardSlice(k) \in Slices(npus[k]) /\ FullCardSlice(k).id = <<k, 0>>
      BY <1>2 DEF Init, NewPhysicalNPU, Slices, FullCardSlice
    <3> QED BY <3>1, ListedNames
  <2> QED BY <2>1 DEF StaleInv, Stale
<1>7. WholeInv
  <2>1. \A c \in Claims : assigned[c] # None => \A id \in assigned[c].devices : id[2] = 0
    BY <1>2 DEF StateInit, LegacyPrepared
  <2> QED BY <1>2, <2>1 DEF WholeInv, Whole, BeforeCheckpoint
<1> QED BY <1>1, <1>3, <1>4, <1>5, <1>6, <1>7 DEF ProcessInv, CardsInv

LEMMA ProcessInductive == ProcessInv /\ [DriverNext]_allVars => ProcessInv'
<1> SUFFICES ASSUME ProcessInv, [DriverNext]_allVars PROVE ProcessInv'
  OBVIOUS
<1>1. DriverInv /\ StateInv /\ IInv /\ OwnInv /\ RpcInv
  BY DEF ProcessInv, ManagerInv, DriverInv
<1>2. StateMove
  BY <1>1, StepMoves DEF DriverInv, StateInv
<1>3. ManagerInv' /\ RpcInv'
  BY <1>1, ManagerInductive, RpcStep DEF ProcessInv
<1>4. ~ Core => HeldInv' /\ FreeInv' /\ StaleInv' /\ WholeInv'
  <2> SUFFICES ASSUME ~ Core PROVE HeldInv' /\ FreeInv' /\ StaleInv' /\ WholeInv'
    OBVIOUS
  <2>1. HeldInv /\ FreeInv /\ StaleInv /\ WholeInv
    BY DEF ProcessInv, CardsInv
  <2> QED BY <1>1, <1>2, <2>1, HeldMove, FreeMove, StaleStep, WholeMove
<1> QED BY <1>3, <1>4 DEF ProcessInv, CardsInv

LEMMA ProcessHolds == DriverSpec => []ProcessInv
BY ProcessInitHolds, ProcessInductive, PTL DEF DriverSpec

(* A claim for a whole card has it to itself, for any number of claims,    *)
(* cards and failures, and however old the list was that the scheduler     *)
(* used, but for cards the manager lost track of.                          *)
THEOREM WholeCardsAreAlone == DriverSpec => []WholeCardClaimAlone
<1>1. ASSUME ProcessInv PROVE WholeCardClaimAlone
  <2> SUFFICES ASSUME NEW c \in Claims, step # "down", ~ Core, checkpoint[c] # None,
                      assigned[c] # None, c \notin ending, assigned[c].template = NoTemplate,
                      NEW id \in checkpoint[c].devices
               PROVE  id[1] \in stray \/ {s.id : s \in Slices(npus[id[1]])} = {id}
    BY DEF WholeCardClaimAlone
  <2>1. id[1] \in stray \/ WholeSlice(id)
    BY <1>1 DEF ProcessInv, CardsInv, WholeInv, Whole, HasWhole
  <2>2. ASSUME WholeSlice(id) PROVE {s.id : s \in Slices(npus[id[1]])} = {id}
    <3>1. id[1] \in Cards
      BY <1>1 DEF ProcessInv, ManagerInv, DriverInv, StateInv, StateTypeOK, Prepared, Ids
    <3>2. PICK s \in npus[id[1]].allocated : s.id = id /\ s.type = "NPU"
      BY <2>2 DEF WholeSlice
    <3>3. Slices(npus[id[1]]) = {s}
      BY <1>1, <3>1, <3>2 DEF ProcessInv, ManagerInv, IInv, CardSafe, Slices
    <3> QED BY <3>2, <3>3
  <2> QED BY <2>1, <2>2
<1> QED BY <1>1, ProcessHolds, PTL
=============================================================================
