------------------------------- MODULE Driver -------------------------------
(***************************************************************************)
(* The driver process around DeviceState: startup, the NodePrepareResources *)
(* and NodeUnprepareResources calls of kubelet, and the device list that   *)
(* syncAllocatable copies under the state lock and publishes without it.   *)
(* Source: cmd/ascend-dra-kubeletplugin/driver.go and health.go.           *)
(*                                                                         *)
(* The helper (kubeletplugin, a library) runs one RPC at a time, and       *)
(* serves from the moment Start is called: the startup in NewDriver, with  *)
(* its own syncAllocatable, runs beside the first RPCs.  PublishResources  *)
(* replaces the list; the list survives the process.                       *)
(***************************************************************************)
EXTENDS DeviceState

ASSUME RpcAssumption == None \notin {"prepare", "unprepare"}

VARIABLES
  rpc,        \* the RPC under way: "prepare", "unprepare" or None
  pending,    \* its claims not gone through yet
  rpcList,    \* the list its syncAllocatable copied, or None
  main,       \* how far NewDriver is
  mainList,   \* the list NewDriver's syncAllocatable copied, or None
  published   \* what the scheduler sees: the last list published

driverVars == <<rpc, pending, rpcList, main, mainList, published>>

allVars == <<vars, driverVars>>

NothingPublished == [id \in {} |-> {}]

(* What syncAllocatable copies under the lock; core mode prunes nothing.   *)
SyncedFree ==  \* mutant: only the free slices count
  Kept(allocatable, {s.id : s \in UNION {npus[c].available : c \in Cards}})

Synced == IF Core THEN allocatable ELSE Kept(allocatable, SliceIds)

Sync ==
  /\ step = "idle"
  /\ allocatable' = Synced
  /\ UNCHANGED <<files, lifetimes, call, outside, npus>>

-----------------------------------------------------------------------------
(* NewDriver: restored state, Start, driver.helper, syncAllocatable.       *)

StartServing ==
  /\ main = "off"
  /\ NewDeviceState
  /\ main' = "serving"
  /\ UNCHANGED <<rpc, pending, rpcList, mainList, published>>

StartReturns ==
  /\ main = "serving"
  /\ main' = "started"
  /\ UNCHANGED <<vars, rpc, pending, rpcList, mainList, published>>

MainSync ==
  /\ main = "started"
  /\ Sync /\ UNCHANGED faults
  /\ mainList' = Synced
  /\ main' = "publishing"
  /\ UNCHANGED <<rpc, pending, rpcList, published>>

(* An error of PublishResources is only logged.                            *)
Publish(list) ==
  \/ published' = list /\ Works
  \/ Fail("publish") /\ UNCHANGED published

MainPublish ==
  /\ main = "publishing"
  /\ Publish(mainList)
  /\ mainList' = None
  /\ main' = "up"
  /\ UNCHANGED <<files, lifetimes, call, outside, sliceVars, rpc, pending, rpcList>>

-----------------------------------------------------------------------------
(* RPCs *)

(* Bound: there is room for the lifetimes and slices of all its claims.    *)
RoomFor(C) ==
  /\ nextGen + Cardinality(C) <= MaxTokens
  /\ \A k \in Cards : npus[k].next + Cardinality(npus[k].allocated)
                        + 2 * MaxDevices * Cardinality(C) <= MaxIndex + 1

BeginPrepare(C) ==
  /\ main # "off" /\ rpc = None
  /\ C # {} /\ \A c \in C : assigned[c] # None
  /\ RoomFor({c \in C : checkpoint[c] = None})
  /\ rpc' = "prepare" /\ pending' = C
  /\ UNCHANGED <<vars, rpcList, main, mainList, published>>

BeginUnprepare(C) ==
  /\ main # "off" /\ rpc = None
  /\ C # {}
  /\ rpc' = "unprepare" /\ pending' = C
  /\ UNCHANGED <<vars, rpcList, main, mainList, published>>

(* Check of the health service calls NodePrepareResources without claims.  *)
HealthCheckOther ==  \* mutant: the probe is an RPC of its own kind
  /\ main = "up" /\ rpc = None
  /\ rpc' = "health" /\ pending' = {}
  /\ UNCHANGED <<vars, rpcList, main, mainList, published>>

HealthCheck ==
  /\ main = "up" /\ rpc = None
  /\ rpc' = "prepare" /\ pending' = {}
  /\ UNCHANGED <<vars, rpcList, main, mainList, published>>

NextClaim(c) ==
  /\ rpcList = None
  /\ c \in pending
  /\ \/ rpc = "prepare" /\ Prepare(c)
     \/ rpc = "unprepare" /\ Unprepare(c)
  /\ pending' = pending \ {c}
  /\ UNCHANGED <<rpc, rpcList, main, mainList, published>>

ContinueClaim == Continue /\ UNCHANGED driverVars

RpcSyncAfterUnprepare ==  \* mutant: Prepare calls do not sync
  /\ rpc # None /\ pending = {} /\ rpcList = None
  /\ IF rpc = "prepare"
     THEN /\ step = "idle"
          /\ rpc' = None
          /\ UNCHANGED <<vars, rpcList>>
     ELSE /\ Sync /\ UNCHANGED <<faults, rpc>>
          /\ rpcList' = Synced
  /\ UNCHANGED <<pending, main, mainList, published>>

RpcSync ==
  /\ rpc # None /\ pending = {} /\ rpcList = None
  /\ Sync /\ UNCHANGED faults
  /\ rpcList' = Synced
  /\ UNCHANGED <<rpc, pending, main, mainList, published>>

RpcPublish ==
  /\ rpcList # None
  /\ main # "serving"
  /\ Publish(rpcList)
  /\ rpc' = None /\ rpcList' = None
  /\ UNCHANGED <<files, lifetimes, call, outside, sliceVars, pending, main, mainList>>

-----------------------------------------------------------------------------
(* A crash may come at any moment; it does come when an RPC publishes      *)
(* through a helper that Start has not returned yet.                       *)

ProcessGone ==
  /\ step # "down"
  /\ step' = "down" /\ claim' = None /\ todo' = {} /\ done' = {}
  /\ reply' = NoReply
  /\ FreshMemory
  /\ rpc' = None /\ pending' = {} /\ rpcList' = None
  /\ main' = "off" /\ mainList' = None
  /\ UNCHANGED <<files, outside, published>>

DriverCrash == ProcessGone /\ Fail("crash")

PublishWithoutHelper ==
  /\ rpcList # None /\ main = "serving"
  /\ ProcessGone
  /\ faults < MaxFaults /\ faults' = faults + 1

-----------------------------------------------------------------------------
(* The scheduler reads the published list, old as it may be.               *)

ClaimScheduled(c) == Schedule(c, published) /\ UNCHANGED driverVars

ClaimDeallocated(c) == c \notin pending /\ Deallocate(c) /\ UNCHANGED driverVars

DriverInit ==
  /\ StateInit
  /\ rpc = None /\ pending = {} /\ rpcList = None
  /\ main = "off" /\ mainList = None
  /\ published = NothingPublished

Serve == (\E c \in pending : NextClaim(c)) \/ ContinueClaim \/ RpcSync \/ RpcPublish

DriverNext ==
  \/ StartServing \/ StartReturns \/ MainSync \/ MainPublish
  \/ \E C \in SUBSET Claims : BeginPrepare(C) \/ BeginUnprepare(C)
  \/ HealthCheck
  \/ Serve
  \/ DriverCrash \/ PublishWithoutHelper
  \/ \E c \in Claims : ClaimScheduled(c) \/ ClaimDeallocated(c)

DriverSpec == DriverInit /\ [][DriverNext]_allVars

(* NewDriver runs to its end, MainSync gets the lock it waits for (a Go    *)
(* mutex starves nobody), and an RPC that started is served.  Nobody has   *)
(* to start one.                                                           *)
FairDriverSpec ==
  /\ DriverSpec
  /\ WF_allVars(StartServing) /\ WF_allVars(StartReturns)
  /\ SF_allVars(MainSync) /\ WF_allVars(MainPublish)
  /\ WF_allVars(Serve)

-----------------------------------------------------------------------------
(* Properties *)

(* The types of the process state and of the published list.               *)
DriverTypeOK ==
  /\ StateTypeOK
  /\ rpc \in {None, "prepare", "unprepare"} /\ pending \subseteq Claims
  /\ main \in {"off", "serving", "started", "publishing", "up"}
  /\ \A list \in {rpcList, mainList} \ {None} : IsAllocatableMap(list)
  /\ IsAllocatableMap(published)

(* A whole-card claim has its cards to itself: the manager has no other    *)
(* slice of them, used or free, whichever list the scheduler looked at and *)
(* however RPCs, publications and failures interleaved; but for cards that *)
(* an earlier Prepare or a restart made the manager lose track of, and for *)
(* claims that kubelet, done with the containers, has begun to unprepare.  *)
WholeCardClaimAlone ==
  \A c \in Claims :
    /\ step # "down" /\ ~ Core
    /\ checkpoint[c] # None /\ assigned[c] # None /\ c \notin ending
    /\ assigned[c].template = NoTemplate
    => \A id \in checkpoint[c].devices :
         id[1] \in stray \/ {s.id : s \in Slices(npus[id[1]])} = {id}

(* A slice in use by a prepared claim stays listed, whatever is cut and    *)
(* released around it: metricsSnapshot and the scheduler look it up there. *)
PreparedStaysListed ==
  \A c \in Claims : checkpoint[c] # None /\ c \notin ending =>
    \A id \in checkpoint[c].devices : IsAllocated(id) => id \in DOMAIN allocatable

(* As long as RPCs keep coming, of whatever kind, a list that differs from *)
(* the allocatable devices is replaced: a publication that failed or was   *)
(* overtaken is made good, and an RPC ends.                                *)
PublishCatchesUp ==
  []<>(rpc # None) => (published # allocatable ~> published = allocatable)
=============================================================================
