------------------------------ MODULE VNPUSlices ------------------------------
(***************************************************************************)
(* The vNPU manager of traditional mode: how one physical NPU is cut into  *)
(* slices by Prepare and put together again by Unprepare, and the map of   *)
(* allocatable devices that its callback feeds and syncAllocatable prunes. *)
(* Source: cmd/ascend-dra-kubeletplugin/vnpu.go, and AllocateSlice,        *)
(* UpdateAllocatableDevice in state.go, syncAllocatable in driver.go.      *)
(*                                                                         *)
(* A slice name "npu-<logicID>-<k>" is the pair <<card, k>>; the lists of  *)
(* slices are sets (their order decides nothing, and SlicesDistinct shows  *)
(* that no name is listed twice).  The flag VNPUSlice.Allocated is TRUE on *)
(* exactly the slices of AllocatedSlices and is left out.                  *)
(***************************************************************************)
EXTENDS Naturals, FiniteSets

CONSTANTS
  Cards,      \* physical NPUs, one per device name npu-<logicID>-0
  Templates,  \* names of the vNPU templates loaded at startup
  NoTemplate, \* the empty TemplateName
  Vir01,      \* the templates whose name starts with "vir01"
  AICore,     \* AICORE of a template
  Memory,     \* memory of a template
  MaxIndex    \* bound: a card numbers at most this many slices in a row

ASSUME TemplatesAssumption ==
  /\ NoTemplate \notin Templates
  /\ Vir01 \subseteq Templates
  /\ AICore \in [Templates -> Nat]
  /\ Memory \in [Templates -> Nat]

ASSUME MaxIndexAssumption == MaxIndex \in Nat

VARIABLES
  npus,        \* VNPUManager.PhysicalNPUs
  allocatable  \* DeviceState.allocatable: name -> templates it advertises

sliceVars == <<npus, allocatable>>

Ids == Cards \X Nat

Slice == [id : Ids, template : Templates \cup {NoTemplate}, type : {"NPU", "vNPU"}]

PhysicalNPU ==
  [available : SUBSET Slice, allocated : SUBSET Slice,
   support : SUBSET Templates, next : Nat]

(* What an allocatable device advertises: the maxima of AICORE and memory  *)
(* over a set of templates; the set stands for the maxima.                 *)
IsAllocatableMap(devices) ==
  /\ devices = [n \in DOMAIN devices |-> devices[n]]
  /\ DOMAIN devices \subseteq Ids
  /\ \A n \in DOMAIN devices : devices[n] \subseteq Templates

-----------------------------------------------------------------------------
(* Slices and cards *)

FullCardSlice(c) == [id |-> <<c, 0>>, template |-> NoTemplate, type |-> "NPU"]

FreeSlice(c, k) == [id |-> <<c, k>>, template |-> NoTemplate, type |-> "vNPU"]

NewPhysicalNPU(c) ==
  [available |-> {FullCardSlice(c)}, allocated |-> {}, support |-> Templates, next |-> 1]

Slices(npu) == npu.available \cup npu.allocated

SliceIds == {s.id : s \in UNION {Slices(npus[c]) : c \in Cards}}

(* UpdateAllocatableDevice: a name that is already there is left as it is. *)
WithDevice(devices, id, advertised) ==
  [n \in DOMAIN devices \cup {id} |-> IF n \in DOMAIN devices THEN devices[n] ELSE advertised]

Kept(devices, names) == [n \in DOMAIN devices \cap names |-> devices[n]]

-----------------------------------------------------------------------------
(* AllocateSlice *)

(* A claim without a template, or whose template asks for nothing.         *)
WantsFullCard(t) ==
  t \in {NoTemplate} \cup {u \in Templates : AICore[u] = 0 /\ Memory[u] = 0}

Fitting(npu, t) ==
  {u \in npu.support : AICore[u] >= AICore[t] /\ Memory[u] >= Memory[t]}

Waste(u, t) == (AICore[u] - AICore[t]) + (Memory[u] - Memory[t])

(* The loop runs over a map: with equal waste either template can win.     *)
BestTemplates(npu, t) ==
  {u \in Fitting(npu, t) : \A v \in Fitting(npu, t) : Waste(u, t) <= Waste(v, t)}

IsAvailable(id) == \E c \in Cards : \E s \in npus[c].available : s.id = id

Allocates(id, t) ==
  \E c \in Cards : \E s \in npus[c].available :
    s.id = id /\ (WantsFullCard(t) \/ BestTemplates(npus[c], t) # {})

TakenWhole(npu, s) ==
  [npu EXCEPT !.available = @ \ {s}, !.allocated = @ \cup {s}]

(* Mutants of Cut: two fields exchanged; the type left as it was.          *)
CutExchanged(npu, c, s, u) ==
  [npu EXCEPT !.available = (@ \ {s}) \cup {FreeSlice(c, npu.next)},
              !.allocated = @ \cup {[s EXCEPT !.template = "vNPU", !.type = u]},
              !.next = @ + 1]

CutUntyped(npu, c, s, u) ==
  [npu EXCEPT !.available = (@ \ {s}) \cup {FreeSlice(c, npu.next)},
              !.allocated = @ \cup {[s EXCEPT !.template = u]},
              !.next = @ + 1]

Cut(npu, c, s, u) ==
  [npu EXCEPT !.available = (@ \ {s}) \cup {FreeSlice(c, npu.next)},
              !.allocated = @ \cup {[s EXCEPT !.template = u, !.type = "vNPU"]},
              !.next = @ + 1]

AllocateFullCard(id, t) ==
  /\ WantsFullCard(t)
  /\ \E c \in Cards : \E s \in npus[c].available :
       /\ s.id = id
       /\ npus' = [npus EXCEPT ![c] = TakenWhole(npus[c], s)]
  /\ UNCHANGED allocatable

AllocateSliceByTemplate(id, t) ==
  /\ ~ WantsFullCard(t)
  /\ \E c \in Cards : \E s \in npus[c].available : \E u \in BestTemplates(npus[c], t) :
       /\ s.id = id
       /\ npus[c].next <= MaxIndex
       /\ npus' = [npus EXCEPT ![c] = Cut(npus[c], c, s, u)]
       /\ allocatable' = WithDevice(allocatable, <<c, npus[c].next>>, npus[c].support)

-----------------------------------------------------------------------------
(* ReleaseSlice: an NPU slice and the last vNPU slice give the whole card  *)
(* back, without the callback; any other vNPU slice is replaced, together  *)
(* with what was available, by one slice under a new name.                 *)

Restored(npu, c) ==
  [npu EXCEPT !.available = {FullCardSlice(c)}, !.allocated = {}, !.next = 1]

(* Mutant of Supported: an idle card does not get its templates back.      *)
SupportedNarrowly(allocated) == Vir01

Supported(allocated) == IF allocated = {} THEN Templates ELSE Vir01

(* Mutants of Renumbered: the index stays; the card is wiped.              *)
RenumberedInPlace(npu, c, s) ==
  [npu EXCEPT !.available = {FreeSlice(c, npu.next)},
              !.allocated = @ \ {s},
              !.support = Supported(npu.allocated \ {s})]

RenumberedAndWiped(npu, c, s) ==
  [npu EXCEPT !.available = {FreeSlice(c, npu.next)},
              !.allocated = {},
              !.support = Supported({}),
              !.next = @ + 1]

Renumbered(npu, c, s) ==
  [npu EXCEPT !.available = {FreeSlice(c, npu.next)},
              !.allocated = @ \ {s},
              !.support = Supported(npu.allocated \ {s}),
              !.next = @ + 1]

ReleaseFullCard(id) ==
  /\ \E c \in Cards : \E s \in npus[c].allocated :
       /\ s.id = id
       /\ s.type = "NPU"
       /\ npus' = [npus EXCEPT ![c] = Restored(npus[c], c)]
  /\ UNCHANGED allocatable

(* Mutant of ReleaseLastSlice: any vNPU slice gives the card back.         *)
ReleaseAnySlice(id) ==
  /\ \E c \in Cards : \E s \in npus[c].allocated :
       /\ s.id = id
       /\ s.type = "vNPU"
       /\ npus' = [npus EXCEPT ![c] = [Restored(npus[c], c) EXCEPT !.support = Supported({})]]
  /\ UNCHANGED allocatable

ReleaseLastSlice(id) ==
  /\ \E c \in Cards : \E s \in npus[c].allocated :
       /\ s.id = id
       /\ s.type = "vNPU"
       /\ npus[c].allocated \ {s} = {}
       /\ npus' = [npus EXCEPT ![c] = [Restored(npus[c], c) EXCEPT !.support = Supported({})]]
  /\ UNCHANGED allocatable

(* The callback runs before updateSupportTemplates: the new device         *)
(* advertises the templates of before the release.                         *)
ReleaseOneOfMany(id) ==
  \E c \in Cards : \E s \in npus[c].allocated :
    /\ s.id = id
    /\ s.type = "vNPU"
    /\ npus[c].allocated \ {s} # {}
    /\ npus[c].next <= MaxIndex
    /\ npus' = [npus EXCEPT ![c] = Renumbered(npus[c], c, s)]
    /\ allocatable' = WithDevice(allocatable, <<c, npus[c].next>>, npus[c].support)

IsAllocated(id) == \E c \in Cards : \E s \in npus[c].allocated : s.id = id

-----------------------------------------------------------------------------
(* syncAllocatable, the part under the state lock.                         *)
PruneAllocatable ==
  /\ allocatable' = Kept(allocatable, SliceIds)
  /\ UNCHANGED npus

Init ==
  /\ npus = [c \in Cards |-> NewPhysicalNPU(c)]
  /\ allocatable = [id \in {<<c, 0>> : c \in Cards} |-> Templates]

AllocateSlice(id, t) == AllocateFullCard(id, t) \/ AllocateSliceByTemplate(id, t)

ReleaseSlice(id) == ReleaseFullCard(id) \/ ReleaseLastSlice(id) \/ ReleaseOneOfMany(id)

Next ==
  \/ \E id \in SliceIds : \E t \in Templates \cup {NoTemplate} : AllocateSlice(id, t)
  \/ \E id \in SliceIds : ReleaseSlice(id)
  \/ PruneAllocatable

Spec == Init /\ [][Next]_sliceVars

-----------------------------------------------------------------------------
(* Properties *)

(* The types of the manager's state and of the allocatable map.            *)
TypeOK ==
  /\ npus \in [Cards -> PhysicalNPU]
  /\ IsAllocatableMap(allocatable)

(* No name is listed twice on a card, as a free and a used slice or as two *)
(* used ones, although NextSliceIndex restarts and names are reused.       *)
SlicesDistinct ==
  \A c \in Cards :
    /\ npus[c].available \cap npus[c].allocated = {}
    /\ \A s, t \in Slices(npus[c]) : s.id = t.id => s = t
    /\ \A s \in Slices(npus[c]) : s.id \in {c} \X (0 .. npus[c].next - 1)

(* A card handed out whole from its initial state is shared with nobody:   *)
(* the NPU slice is then its only slice, free or used.  ReleaseSlice wipes *)
(* the card when it gives such a slice back and relies on it.              *)
FullCardExclusive ==
  \A c \in Cards : \A s \in Slices(npus[c]) : s.type = "NPU" => Slices(npus[c]) = {s}

(* A card offers at most one free slice, the rest of the card, and one     *)
(* with nothing in use offers exactly the whole card and every template.   *)
IdleCardIsWhole ==
  \A c \in Cards :
    /\ Cardinality(npus[c].available) <= 1
    /\ npus[c].allocated = {} => /\ npus[c].available = {FullCardSlice(c)}
                                 /\ npus[c].support = Templates

(* One call takes at most one slice out of use, on one card: giving back a *)
(* slice never takes another claim's slice with it.                        *)
ReleaseIsLocal ==
  [][\A c, d \in Cards :
       \A s \in npus[c].allocated \ npus'[c].allocated :
         \A t \in npus[d].allocated \ npus'[d].allocated : s = t]_sliceVars

(* What the log of ReleaseSlice says, "restored to full card state": the   *)
(* slice a card has free can be requested, it is among the devices that    *)
(* syncAllocatable publishes.                                              *)
FreeSliceAllocatable ==
  \A c \in Cards : \A s \in npus[c].available : s.id \in DOMAIN allocatable
=============================================================================
