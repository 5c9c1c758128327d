--------------------------- MODULE VNPUSlicesProofs ---------------------------
(***************************************************************************)
(* Proofs about the vNPU manager for every set of cards, every template    *)
(* table and every bound on the slice numbers.  Every operation works on   *)
(* one card (CardStep), so an invariant is proved card by card.            *)
(***************************************************************************)
EXTENDS VNPUSlices, FiniteSetTheorems, TLAPS

(* What one call of the manager does to the record of one card.            *)
CardStep(c, npu, new) ==
  \/ \E s \in npu.available : new = TakenWhole(npu, s)
  \/ \E s \in npu.available : \E u \in npu.support : new = Cut(npu, c, s, u)
  \/ \E s \in npu.allocated : s.type = "NPU" /\ new = Restored(npu, c)
  \/ \E s \in npu.allocated :
       /\ npu.allocated \ {s} = {}
       /\ new = [Restored(npu, c) EXCEPT !.support = Supported({})]
  \/ \E s \in npu.allocated :
       /\ s.type = "vNPU"
       /\ npu.allocated \ {s} # {}
       /\ new = Renumbered(npu, c, s)

(* The part of the inductive invariant that concerns one card: the three   *)
(* properties of the runs, with a free slice unique and named after the    *)
(* card, and the full template table kept while a card is whole.           *)
CardSafe(c, npu) ==
  /\ npu.available \cap npu.allocated = {}
  /\ \A s, t \in Slices(npu) : s.id = t.id => s = t
  /\ \A s \in Slices(npu) : s.id \in {c} \X (0 .. npu.next - 1)
  /\ \A s \in Slices(npu) :
       s.type = "NPU" => Slices(npu) = {s} /\ npu.support = Templates
  /\ \A s, t \in npu.available : s = t
  /\ npu.allocated = {} => /\ npu.available = {FullCardSlice(c)}
                           /\ npu.support = Templates
  /\ npu.next >= 1

IInv == TypeOK /\ \A c \in Cards : CardSafe(c, npus[c])

-----------------------------------------------------------------------------
(* The names and types a fresh card and a fresh slice are made of.         *)
LEMMA SliceTypes ==
  ASSUME NEW c \in Cards
  PROVE  /\ FullCardSlice(c) \in Slice
         /\ \A k \in Nat : FreeSlice(c, k) \in Slice
         /\ NewPhysicalNPU(c) \in PhysicalNPU
BY DEF FullCardSlice, FreeSlice, NewPhysicalNPU, PhysicalNPU, Slice, Ids

(* A step of the manager is a step of at most one card, and what it does   *)
(* to the allocatable map is to add a name of that card or to prune.       *)
LEMMA StepShape ==
  ASSUME [Next]_sliceVars
  PROVE  /\ \/ UNCHANGED npus
            \/ \E c \in Cards : \E new :
                 npus' = [npus EXCEPT ![c] = new] /\ CardStep(c, npus[c], new)
         /\ \/ UNCHANGED allocatable
            \/ \E c \in Cards :
                 allocatable' = WithDevice(allocatable, <<c, npus[c].next>>, npus[c].support)
            \/ allocatable' = Kept(allocatable, SliceIds)
<1>1. ASSUME NEW id, NEW t, AllocateFullCard(id, t)
      PROVE  /\ \E c \in Cards : \E new :
                  npus' = [npus EXCEPT ![c] = new] /\ CardStep(c, npus[c], new)
             /\ UNCHANGED allocatable
  BY <1>1 DEF AllocateFullCard, CardStep
<1>2. ASSUME NEW id, NEW t, AllocateSliceByTemplate(id, t)
      PROVE  \E c \in Cards :
               /\ \E new : npus' = [npus EXCEPT ![c] = new] /\ CardStep(c, npus[c], new)
               /\ allocatable' = WithDevice(allocatable, <<c, npus[c].next>>, npus[c].support)
  <2>1. PICK c \in Cards :
          \E s \in npus[c].available : \E u \in BestTemplates(npus[c], t) :
            /\ npus' = [npus EXCEPT ![c] = Cut(npus[c], c, s, u)]
            /\ allocatable' = WithDevice(allocatable, <<c, npus[c].next>>, npus[c].support)
    BY <1>2 DEF AllocateSliceByTemplate
  <2>2. \A s, u : s \in npus[c].available /\ u \in BestTemplates(npus[c], t)
                  => CardStep(c, npus[c], Cut(npus[c], c, s, u))
    BY DEF CardStep, BestTemplates, Fitting
  <2> QED
    BY <2>1, <2>2
<1>3. ASSUME NEW id, ReleaseFullCard(id) \/ ReleaseLastSlice(id)
      PROVE  /\ \E c \in Cards : \E new :
                  npus' = [npus EXCEPT ![c] = new] /\ CardStep(c, npus[c], new)
             /\ UNCHANGED allocatable
  BY <1>3 DEF ReleaseFullCard, ReleaseLastSlice, CardStep
<1>4. ASSUME NEW id, ReleaseOneOfMany(id)
      PROVE  \E c \in Cards :
               /\ \E new : npus' = [npus EXCEPT ![c] = new] /\ CardStep(c, npus[c], new)
               /\ allocatable' = WithDevice(allocatable, <<c, npus[c].next>>, npus[c].support)
  <2>1. PICK c \in Cards :
          \E s \in npus[c].allocated :
            /\ s.type = "vNPU"
            /\ npus[c].allocated \ {s} # {}
            /\ npus' = [npus EXCEPT ![c] = Renumbered(npus[c], c, s)]
            /\ allocatable' = WithDevice(allocatable, <<c, npus[c].next>>, npus[c].support)
    BY <1>4 DEF ReleaseOneOfMany
  <2> QED
    BY <2>1 DEF CardStep
<1>5. CASE PruneAllocatable
  BY <1>5 DEF PruneAllocatable
<1>6. CASE UNCHANGED sliceVars
  BY <1>6 DEF sliceVars
<1> QED
  BY <1>1, <1>2, <1>3, <1>4, <1>5, <1>6 DEF Next, AllocateSlice, ReleaseSlice

-----------------------------------------------------------------------------
(* Types *)

(* Every operation on one card keeps its record well typed.                *)
LEMMA CardTypes ==
  ASSUME NEW c \in Cards, NEW npu \in PhysicalNPU, NEW new, CardStep(c, npu, new)
  PROVE  new \in PhysicalNPU
<1>1. /\ npu.next \in Nat /\ npu.next + 1 \in Nat
      /\ FullCardSlice(c) \in Slice
      /\ FreeSlice(c, npu.next) \in Slice
      /\ npu.available \in SUBSET Slice
      /\ npu.allocated \in SUBSET Slice
      /\ npu.support \in SUBSET Templates
  BY SliceTypes DEF PhysicalNPU
<1>2. \A A : Supported(A) \in SUBSET Templates
  BY TemplatesAssumption DEF Supported
<1>3. ASSUME NEW s \in npu.available
      PROVE  TakenWhole(npu, s) \in PhysicalNPU
  BY <1>1 DEF TakenWhole, PhysicalNPU
<1>4. ASSUME NEW s \in npu.available, NEW u \in npu.support
      PROVE  Cut(npu, c, s, u) \in PhysicalNPU
  <2> DEFINE A == (npu.available \ {s}) \cup {FreeSlice(c, npu.next)}
             U == npu.allocated \cup {[s EXCEPT !.template = u, !.type = "vNPU"]}
  <2>1. [s EXCEPT !.template = u, !.type = "vNPU"] \in Slice
    BY <1>1 DEF Slice
  <2>2. A \in SUBSET Slice /\ U \in SUBSET Slice
    BY <1>1, <2>1
  <2>3. Cut(npu, c, s, u) =
          [npu EXCEPT !.available = A, !.allocated = U, !.next = npu.next + 1]
    BY DEF Cut
  <2> HIDE DEF A, U
  <2> QED
    BY <1>1, <2>2, <2>3 DEF PhysicalNPU
<1>5. /\ Restored(npu, c) \in PhysicalNPU
      /\ [Restored(npu, c) EXCEPT !.support = Supported({})] \in PhysicalNPU
  BY <1>1, <1>2 DEF Restored, PhysicalNPU
<1>6. ASSUME NEW s \in npu.allocated
      PROVE  Renumbered(npu, c, s) \in PhysicalNPU
  <2> DEFINE A == {FreeSlice(c, npu.next)}
             U == npu.allocated \ {s}
  <2>1. A \in SUBSET Slice /\ U \in SUBSET Slice /\ Supported(U) \in SUBSET Templates
    BY <1>1, <1>2
  <2>2. Renumbered(npu, c, s) =
          [npu EXCEPT !.available = A, !.allocated = U, !.support = Supported(U),
                      !.next = npu.next + 1]
    BY DEF Renumbered
  <2> HIDE DEF A, U
  <2> QED
    BY <1>1, <2>1, <2>2 DEF PhysicalNPU
<1> QED
  BY <1>3, <1>4, <1>5, <1>6 DEF CardStep

(* The callback and the pruning keep the allocatable map a map of names.   *)
LEMMA AllocatableTypes ==
  ASSUME NEW devices, IsAllocatableMap(devices)
  PROVE  /\ \A id \in Ids : \A T \in SUBSET Templates :
              IsAllocatableMap(WithDevice(devices, id, T))
         /\ \A names : IsAllocatableMap(Kept(devices, names))
BY DEF IsAllocatableMap, WithDevice, Kept

LEMMA TypeStep == TypeOK /\ [Next]_sliceVars => TypeOK'
<1> SUFFICES ASSUME TypeOK, [Next]_sliceVars
             PROVE  TypeOK'
  OBVIOUS
<1>1. npus' \in [Cards -> PhysicalNPU]
  BY StepShape, CardTypes DEF TypeOK
<1>2. \A c \in Cards : /\ <<c, npus[c].next>> \in Ids
                      /\ npus[c].support \in SUBSET Templates
  BY DEF TypeOK, PhysicalNPU, Ids
<1>3. IsAllocatableMap(allocatable')
  <2>1. CASE UNCHANGED allocatable
    BY <2>1 DEF TypeOK, IsAllocatableMap
  <2>2. ASSUME NEW c \in Cards,
               allocatable' = WithDevice(allocatable, <<c, npus[c].next>>, npus[c].support)
        PROVE  IsAllocatableMap(allocatable')
    BY <1>2, <2>2, AllocatableTypes DEF TypeOK
  <2>3. CASE allocatable' = Kept(allocatable, SliceIds)
    BY <2>3, AllocatableTypes DEF TypeOK
  <2> QED
    BY <2>1, <2>2, <2>3, StepShape
<1> QED
  BY <1>1, <1>3 DEF TypeOK, IsAllocatableMap

LEMMA TypeInit == Init => TypeOK
<1> SUFFICES ASSUME Init
             PROVE  TypeOK
  OBVIOUS
<1>1. npus \in [Cards -> PhysicalNPU]
  BY SliceTypes DEF Init
<1>2. {<<c, 0>> : c \in Cards} \subseteq Ids
  BY DEF Ids
<1>3. IsAllocatableMap(allocatable)
  BY <1>2 DEF Init, IsAllocatableMap
<1> QED
  BY <1>1, <1>3 DEF TypeOK

(* The manager's state and the allocatable map keep their types.           *)
THEOREM TypeCorrect == Spec => []TypeOK
BY TypeInit, TypeStep, PTL DEF Spec

-----------------------------------------------------------------------------
(* The inductive invariant.  A used name stays below NextSliceIndex, which *)
(* only restarts when the card is empty; the card's NPU slice exists only  *)
(* alone, so that the release that wipes the card wipes nothing else.      *)

LEMMA WholeCardSafe ==
  ASSUME NEW c \in Cards, NEW n, n.available = {FullCardSlice(c)}, n.allocated = {},
         n.support = Templates, n.next = 1
  PROVE  CardSafe(c, n)
<1>1. /\ Slices(n) = {FullCardSlice(c)}
      /\ FullCardSlice(c).id = <<c, 0>>
  BY DEF Slices, FullCardSlice
<1>2. <<c, 0>> \in {c} \X (0 .. n.next - 1)
  OBVIOUS
<1> QED
  BY <1>1, <1>2 DEF CardSafe

LEMMA CardSafeStep ==
  ASSUME NEW c \in Cards, NEW npu \in PhysicalNPU, NEW new,
         CardSafe(c, npu), CardStep(c, npu, new)
  PROVE  CardSafe(c, new)
<1>1. /\ npu.next \in Nat /\ npu.next >= 1
      /\ npu.available \in SUBSET Slice
      /\ npu.allocated \in SUBSET Slice
  BY DEF PhysicalNPU, CardSafe
<1>2. ASSUME NEW s \in npu.available
      PROVE  CardSafe(c, TakenWhole(npu, s))
  <2> DEFINE n == TakenWhole(npu, s)
  <2>1. /\ n.available = npu.available \ {s}
        /\ n.allocated = npu.allocated \cup {s}
        /\ n.support = npu.support
        /\ n.next = npu.next
    BY DEF TakenWhole, PhysicalNPU
  <2>2. Slices(n) = Slices(npu)
    BY <2>1 DEF Slices
  <2> HIDE DEF n
  <2>3. CardSafe(c, n)
    BY <2>1, <2>2 DEF CardSafe
  <2> QED
    BY <2>3 DEF n
<1>3. ASSUME NEW s \in npu.available, NEW u \in npu.support
      PROVE  CardSafe(c, Cut(npu, c, s, u))
  <2> DEFINE n == Cut(npu, c, s, u)
             used == [s EXCEPT !.template = u, !.type = "vNPU"]
             free == FreeSlice(c, npu.next)
  <2>1. /\ npu.available = {s}
        /\ s \in Slices(npu) /\ s \in Slice
    BY <1>1 DEF CardSafe, Slices
  <2>2. /\ n.available = {free}
        /\ n.allocated = npu.allocated \cup {used}
        /\ n.support = npu.support
        /\ n.next = npu.next + 1
    BY <2>1 DEF Cut, PhysicalNPU
  <2>3. /\ used.id = s.id /\ used.type = "vNPU"
        /\ free.id = <<c, npu.next>> /\ free.type = "vNPU"
    BY <2>1 DEF Slice, FreeSlice
  <2>4. /\ Slices(n) = {free, used} \cup npu.allocated
        /\ Slices(npu) = {s} \cup npu.allocated
    BY <2>1, <2>2 DEF Slices
  <2> HIDE DEF n, used, free
  <2>5. /\ \A t \in Slices(npu) : t.id \in {c} \X (0 .. npu.next - 1)
        /\ \A t \in npu.allocated : t.type # "NPU" /\ t.id # s.id
    BY <2>1, <2>4 DEF CardSafe
  <2>6. \A t \in Slices(npu) : t.id # <<c, npu.next>> /\ t.id \in {c} \X (0 .. npu.next)
    BY <1>1, <2>5
  <2>7. \A t, v \in Slices(n) : t.id = v.id => t = v
    BY <2>3, <2>4, <2>5, <2>6 DEF CardSafe
  <2>8. \A t \in Slices(n) : t.id \in {c} \X (0 .. n.next - 1)
    <3>1. n.next - 1 = npu.next /\ npu.next \in 0 .. npu.next
      BY <1>1, <2>2
    <3> QED
      BY <3>1, <2>3, <2>4, <2>6
  <2>9. n.available \cap n.allocated = {}
    BY <2>2, <2>3, <2>4, <2>6
  <2>10. \A t \in Slices(n) : t.type # "NPU"
    BY <2>3, <2>4, <2>5
  <2>11. n.allocated # {} /\ n.next >= 1
    BY <1>1, <2>2
  <2>12. CardSafe(c, n)
    BY <2>2, <2>7, <2>8, <2>9, <2>10, <2>11 DEF CardSafe
  <2> QED
    BY <2>12 DEF n
<1>4. /\ Restored(npu, c).available = {FullCardSlice(c)}
      /\ Restored(npu, c).allocated = {}
      /\ Restored(npu, c).support = npu.support
      /\ Restored(npu, c).next = 1
  BY DEF Restored, PhysicalNPU
<1>5. ASSUME NEW s \in npu.allocated, s.type = "NPU"
      PROVE  CardSafe(c, Restored(npu, c))
  <2>1. npu.support = Templates
    BY <1>5 DEF CardSafe, Slices
  <2> QED
    BY <2>1, <1>4, WholeCardSafe
<1>6. CardSafe(c, [Restored(npu, c) EXCEPT !.support = Supported({})])
  <2> DEFINE n == [Restored(npu, c) EXCEPT !.support = Supported({})]
  <2>1. /\ n.available = {FullCardSlice(c)}
        /\ n.allocated = {}
        /\ n.support = Templates
        /\ n.next = 1
    BY DEF Restored, PhysicalNPU, Supported
  <2> HIDE DEF n
  <2>2. CardSafe(c, n)
    BY <2>1, WholeCardSafe
  <2> QED
    BY <2>2 DEF n
<1>7. ASSUME NEW s \in npu.allocated, s.type = "vNPU", npu.allocated \ {s} # {}
      PROVE  CardSafe(c, Renumbered(npu, c, s))
  <2> DEFINE n == Renumbered(npu, c, s)
             free == FreeSlice(c, npu.next)
  <2>1. /\ n.available = {free}
        /\ n.allocated = npu.allocated \ {s}
        /\ n.next = npu.next + 1
    BY DEF Renumbered, PhysicalNPU
  <2>2. free.id = <<c, npu.next>> /\ free.type = "vNPU"
    BY DEF FreeSlice
  <2>3. /\ Slices(n) = {free} \cup (npu.allocated \ {s})
        /\ npu.allocated \subseteq Slices(npu)
    BY <2>1 DEF Slices
  <2> HIDE DEF n, free
  <2>4. /\ \A t \in Slices(npu) : t.id \in {c} \X (0 .. npu.next - 1)
        /\ \A t \in npu.allocated : t.type # "NPU"
    BY <1>7, <2>3 DEF CardSafe
  <2>5. \A t \in Slices(npu) : t.id # <<c, npu.next>> /\ t.id \in {c} \X (0 .. npu.next)
    BY <1>1, <2>4
  <2>6. \A t, v \in Slices(n) : t.id = v.id => t = v
    BY <2>2, <2>3, <2>5 DEF CardSafe
  <2>7. \A t \in Slices(n) : t.id \in {c} \X (0 .. n.next - 1)
    <3>1. n.next - 1 = npu.next /\ npu.next \in 0 .. npu.next
      BY <1>1, <2>1
    <3> QED
      BY <3>1, <2>2, <2>3, <2>5
  <2>8. n.available \cap n.allocated = {}
    BY <2>1, <2>2, <2>3, <2>5
  <2>9. \A t \in Slices(n) : t.type # "NPU"
    BY <2>2, <2>3, <2>4
  <2>10. n.allocated # {} /\ n.next >= 1
    BY <1>1, <1>7, <2>1
  <2>11. CardSafe(c, n)
    BY <2>1, <2>6, <2>7, <2>8, <2>9, <2>10 DEF CardSafe
  <2> QED
    BY <2>11 DEF n
<1> QED
  BY <1>2, <1>3, <1>5, <1>6, <1>7 DEF CardStep

LEMMA SafeInit == Init => IInv
<1> SUFFICES ASSUME Init, NEW c \in Cards
             PROVE  CardSafe(c, npus[c])
  BY TypeInit DEF IInv
<1>1. npus[c] = NewPhysicalNPU(c)
  BY DEF Init
<1> QED
  BY <1>1, WholeCardSafe DEF NewPhysicalNPU

LEMMA SafeStep == IInv /\ [Next]_sliceVars => IInv'
<1> SUFFICES ASSUME IInv, [Next]_sliceVars, NEW c \in Cards
             PROVE  CardSafe(c, npus'[c])
  BY TypeStep DEF IInv
<1>1. CASE UNCHANGED npus
  BY <1>1 DEF IInv
<1>2. ASSUME NEW d \in Cards, NEW new,
             npus' = [npus EXCEPT ![d] = new], CardStep(d, npus[d], new)
      PROVE  CardSafe(c, npus'[c])
  <2>1. CASE c = d
    BY <1>2, <2>1, CardSafeStep DEF IInv, TypeOK
  <2>2. CASE c # d
    BY <1>2, <2>2 DEF IInv, TypeOK
  <2> QED
    BY <2>1, <2>2
<1> QED
  BY <1>1, <1>2, StepShape

LEMMA Inductive == Spec => []IInv
BY SafeInit, SafeStep, PTL DEF Spec

(* No name is listed twice, whatever is requested and released, although   *)
(* NextSliceIndex restarts and names come back.                            *)
THEOREM NamesStayDistinct == Spec => []SlicesDistinct
<1>1. IInv => SlicesDistinct
  BY DEF IInv, CardSafe, SlicesDistinct
<1> QED
  BY <1>1, Inductive, PTL

(* A card handed out whole from its initial state is shared with nobody.   *)
THEOREM WholeCardIsExclusive == Spec => []FullCardExclusive
<1>1. IInv => FullCardExclusive
  BY DEF IInv, CardSafe, FullCardExclusive
<1> QED
  BY <1>1, Inductive, PTL

(* A card offers at most one free slice; an idle card is whole again.      *)
THEOREM IdleCardIsRestored == Spec => []IdleCardIsWhole
<1>1. IInv => IdleCardIsWhole
  <2> SUFFICES ASSUME IInv, NEW c \in Cards
               PROVE  Cardinality(npus[c].available) <= 1
    BY DEF IInv, CardSafe, IdleCardIsWhole
  <2>1. CASE npus[c].available = {}
    BY <2>1, FS_EmptySet
  <2>2. ASSUME NEW s \in npus[c].available
        PROVE  Cardinality(npus[c].available) <= 1
    <3>1. npus[c].available = {s}
      BY <2>2 DEF IInv, CardSafe
    <3> QED
      <4>1. Cardinality(npus[c].available) = 1
        BY <3>1, FS_Singleton
      <4> QED
        BY <4>1
  <2> QED
    BY <2>1, <2>2
<1> QED
  BY <1>1, Inductive, PTL

(* Giving back one slice never takes another slice out of use.             *)
THEOREM ReleaseTakesOne == Spec => ReleaseIsLocal
<1> DEFINE Local == \A c, d \in Cards :
                      \A s \in npus[c].allocated \ npus'[c].allocated :
                        \A t \in npus[d].allocated \ npus'[d].allocated : s = t
<1>1. IInv /\ [Next]_sliceVars => Local
  <2> SUFFICES ASSUME IInv, [Next]_sliceVars
               PROVE  Local
    OBVIOUS
  <2>1. CASE UNCHANGED npus
    BY <2>1
  <2>2. ASSUME NEW b \in Cards, NEW new,
               npus' = [npus EXCEPT ![b] = new], CardStep(b, npus[b], new)
        PROVE  Local
    <3>1. /\ npus[b] \in PhysicalNPU
          /\ CardSafe(b, npus[b])
          /\ npus'[b] = new
          /\ \A c \in Cards : c # b => npus'[c] = npus[c]
      BY <2>2 DEF IInv, TypeOK
    <3>2. \A s, t \in npus[b].allocated \ new.allocated : s = t
      <4>1. \A s \in npus[b].available : npus[b].allocated \subseteq TakenWhole(npus[b], s).allocated
        BY <3>1 DEF TakenWhole, PhysicalNPU
      <4>2. \A s \in npus[b].available, u \in npus[b].support :
              npus[b].allocated \subseteq Cut(npus[b], b, s, u).allocated
        BY <3>1 DEF Cut, PhysicalNPU
      <4>3. \A s \in npus[b].allocated : Renumbered(npus[b], b, s).allocated = npus[b].allocated \ {s}
        BY <3>1 DEF Renumbered, PhysicalNPU
      <4>4. \A s \in npus[b].allocated : s.type = "NPU" => npus[b].allocated \subseteq {s}
        BY <3>1 DEF CardSafe, Slices
      <4> QED
        BY <2>2, <4>1, <4>2, <4>3, <4>4 DEF CardStep
    <3> QED
      BY <3>1, <3>2
  <2> QED
    BY <2>1, <2>2, StepShape
<1> QED
  BY <1>1, Inductive, PTL DEF Spec, ReleaseIsLocal
=============================================================================
