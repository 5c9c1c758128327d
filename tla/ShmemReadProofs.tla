--------------------------- MODULE ShmemReadProofs ---------------------------
(***************************************************************************)
(* UsageOfHolder, LimitIsQuota, SumIsExact and the types for any number of *)
(* slots, pids, values and stores.                                         *)
(*                                                                         *)
(* A slot is followed through the two copies.  Until its pid is copied     *)
(* again, the copied pid either is in the file still or has left the slot  *)
(* (PidKnown); so has it when the usage is copied (HolderKnown).  A pid    *)
(* that has left is not in the file (LeftIsGone), so one that is found a   *)
(* second time has been there all the time (Verified).                     *)
(*                                                                         *)
(* The head needs the order of the runtime (HeadInv): a flag that is       *)
(* copied first tells that the quota is there to be copied again.          *)
(*                                                                         *)
(* The loop that adds and the sum it is compared with are two recursive    *)
(* functions: they are equal, turn by turn, until one does not fit.        *)
(***************************************************************************)
EXTENDS ShmemRead, WellFoundedInduction, TLAPS

Slot == 1 .. Slots

(* What of a slot the two copies have behind them.                         *)
PidCopied(i) == at # 0 /\ (pass = "verify" \/ at > PidAt(i))

UsedCopied(i) == at # 0 /\ (pass = "verify" \/ at > UsedAt(i))

PidVerified(i) == pass = "verify" /\ at > PidAt(i)

Types ==
  /\ {mem, data, verify} \subseteq [Fields -> Nat]
  /\ quota \in Nat /\ at \in 0 .. FlagAt + 1 /\ pass \in {"data", "verify"}
  /\ DOMAIN holder = Slot

LeftIsGone ==
  \A i \in Slot : \A p \in Nat \ {0} : <<i, p>> \in left => mem[PidAt(i)] # p

LeftWhileReading == at = 0 => left = {} /\ pass = "data"

PidKnown(i) ==
  PidCopied(i) => mem[PidAt(i)] = data[PidAt(i)] \/ <<i, data[PidAt(i)]>> \in left

HolderKnown(i) ==
  UsedCopied(i) => holder[i] = data[PidAt(i)] \/ <<i, data[PidAt(i)]>> \in left

Verified(i) ==
  PidVerified(i) /\ verify[PidAt(i)] = data[PidAt(i)] /\ data[PidAt(i)] # 0
    => holder[i] = data[PidAt(i)]

IInv ==
  /\ Types /\ LeftIsGone /\ LeftWhileReading
  /\ \A i \in Slot : PidKnown(i) /\ HolderKnown(i) /\ Verified(i)

(* The fields of a slot are fields of the file, and no two are the same.   *)
LEMMA Places ==
  /\ FlagAt \in Fields /\ LimitAt \in Fields
  /\ \A i \in Slot :
       /\ PidAt(i) \in Fields /\ UsedAt(i) \in Fields /\ ActiveAt(i) \in Fields
       /\ PidAt(i) < UsedAt(i) /\ UsedAt(i) < FlagAt /\ PidAt(i) > 0
  /\ \A i, j \in Slot :
       /\ PidAt(i) # UsedAt(j) /\ PidAt(i) # ActiveAt(j)
       /\ PidAt(i) = PidAt(j) => i = j
       /\ UsedAt(i) = UsedAt(j) => i = j
  /\ \A i \in Slot : PidAt(i) # LimitAt /\ PidAt(i) # FlagAt
  BY ShmemAssumption DEF FlagAt, LimitAt, PidAt, UsedAt, ActiveAt, Fields, Slot

LEMMA ZerosType == Zeros \in [Fields -> Nat] /\ \A i \in Slot : Zeros[PidAt(i)] = 0
  BY Places DEF Zeros

(* Outside an attempt, and at its beginning, nothing is known of a slot.   *)
LEMMA FreshAttempt ==
  ASSUME Types', left' = {}, (at' = 0 \/ at' = 1) /\ pass' = "data"
  PROVE  IInv'
<1>1. LeftIsGone' /\ LeftWhileReading'
  BY DEF LeftIsGone, LeftWhileReading
<1>2. ASSUME NEW i \in Slot PROVE (PidKnown(i) /\ HolderKnown(i) /\ Verified(i))'
  <2>1. PidAt(i) \in Nat /\ UsedAt(i) \in Nat /\ PidAt(i) > 0 /\ UsedAt(i) > 1
    BY Places DEF Fields, FlagAt, PidAt, UsedAt, Slot
  <2>2. ~ PidCopied(i)' /\ ~ UsedCopied(i)' /\ ~ PidVerified(i)'
    BY <2>1 DEF PidCopied, UsedCopied, PidVerified, PidAt, UsedAt
  <2> QED BY <2>2 DEF PidKnown, HolderKnown, Verified
<1> QED BY <1>1, <1>2 DEF IInv

LEMMA InitHolds == Init => IInv
<1> SUFFICES ASSUME Init PROVE IInv
  OBVIOUS
<1>1. mem \in [Fields -> Nat]
  <2>1. quota \in Nat /\ \A x \in Pids \cup Usages : x \in Nat
    BY ShmemAssumption DEF Init
  <2> QED BY <2>1, ZerosType DEF Init
<1>2. Types
  <2>1. quota \in Nat
    BY ShmemAssumption DEF Init
  <2>2. at \in 0 .. FlagAt + 1 /\ DOMAIN holder = Slot
    BY Places DEF Init, Slot, Fields
  <2> QED BY <1>1, <2>1, <2>2, ZerosType DEF Init, Types
<1> QED
  BY <1>2, ZerosType DEF Init, IInv, LeftIsGone, LeftWhileReading, PidKnown, HolderKnown,
     Verified, PidCopied, UsedCopied, PidVerified

-----------------------------------------------------------------------------
(* The reader *)

(* What ends or begins an attempt leaves the file alone and forgets.       *)
LEMMA AttemptEnds ==
  ASSUME IInv, Watch, UNCHANGED fileVars,
         {data', verify'} \subseteq {data, verify, Zeros},
         (at' = 0 \/ at' = 1) /\ pass' = "data"
  PROVE  IInv'
<1>1. Types'
  <2>1. at' \in 0 .. FlagAt + 1
    BY Places DEF Fields
  <2>2. mem' = mem /\ quota' = quota /\ DOMAIN holder' = Slot
    BY DEF fileVars, Watch, Slot
  <2>3. {data', verify'} \subseteq [Fields -> Nat]
    BY ZerosType DEF IInv, Types
  <2> QED BY <2>1, <2>2, <2>3 DEF IInv, Types, Slot, Fields, FlagAt
<1> QED BY <1>1, FreshAttempt DEF Watch

LEMMA ReadsField == IInv /\ CopyField => IInv'
<1> SUFFICES ASSUME IInv, CopyField PROVE IInv'
  OBVIOUS
<1>1. at \in Fields /\ at \in Nat /\ at > 0 /\ at' = at + 1 /\ mem[at] \in Nat
  BY DEF CopyField, IInv, Types, Fields
<1>2. Types'
  <2>1. at' \in 0 .. FlagAt + 1
    BY <1>1, Places DEF Fields
  <2>2. {data', verify'} \subseteq [Fields -> Nat]
    BY <1>1 DEF CopyField, IInv, Types
  <2> QED BY <2>1, <2>2 DEF CopyField, IInv, Types, fileVars, Slot
<1>3. LeftIsGone' /\ LeftWhileReading'
  BY <1>1 DEF IInv, LeftIsGone, LeftWhileReading, CopyField, fileVars
<1>4. ASSUME NEW i \in Slot PROVE (PidKnown(i) /\ HolderKnown(i) /\ Verified(i))'
  <2>1. /\ PidAt(i) \in Nat /\ UsedAt(i) \in Nat /\ PidAt(i) \in Fields
        /\ PidAt(i) < UsedAt(i) /\ UsedAt(i) < FlagAt /\ FlagAt \in Nat
    BY Places DEF Fields
  <2>2. data[PidAt(i)] \in Nat /\ mem' = mem /\ left' = left /\ pass' = pass
    BY <2>1 DEF IInv, Types, CopyField, fileVars
  <2>3. PidKnown(i) /\ HolderKnown(i) /\ Verified(i) /\ LeftIsGone
    BY DEF IInv
  <2>4. CASE pass = "data"
    <3>1. /\ data' = [data EXCEPT ![at] = mem[at]]
          /\ holder'[i] = IF at = UsedAt(i) THEN mem[PidAt(i)] ELSE holder[i]
      <4>1. \A j \in 1 .. Slots : at = UsedAt(j) /\ at = UsedAt(i) => j = i
        BY Places DEF Slot
      <4> QED BY <2>4, <4>1 DEF CopyField, Slot
    <3>2. data'[PidAt(i)] = IF at = PidAt(i) THEN mem[at] ELSE data[PidAt(i)]
      BY <3>1, <2>1, <1>1 DEF IInv, Types
    <3>3. PidKnown(i)'
      BY <1>1, <2>1, <2>2, <2>3, <2>4, <3>2 DEF PidKnown, PidCopied, PidAt
    <3>4. HolderKnown(i)'
      <4>1. UsedCopied(i)' => UsedCopied(i) \/ at = UsedAt(i)
        BY <1>1, <2>1, <2>2, <2>4 DEF UsedCopied, UsedAt
      <4>2. UsedCopied(i)' => at # PidAt(i) /\ PidCopied(i)
        BY <1>1, <2>1, <2>2, <2>4 DEF UsedCopied, PidCopied, UsedAt, PidAt
      <4>3. UsedCopied(i)' => data'[PidAt(i)] = data[PidAt(i)]
        BY <4>2, <3>2
      <4>4. (data[PidAt(i)])' = data'[PidAt(i)] /\ (<<i, data[PidAt(i)]>>)' = <<i, data'[PidAt(i)]>>
        BY DEF PidAt
      <4> QED
        BY <2>2, <2>3, <3>1, <4>1, <4>2, <4>3, <4>4 DEF HolderKnown, PidKnown
    <3>5. Verified(i)'
      BY <2>2, <2>4 DEF Verified, PidVerified
    <3> QED BY <3>3, <3>4, <3>5
  <2>5. CASE pass = "verify"
    <3>1. /\ verify' = [verify EXCEPT ![at] = mem[at]] /\ data' = data
          /\ holder'[i] = holder[i]
      BY <2>5 DEF CopyField, Slot
    <3>2. verify'[PidAt(i)] = IF at = PidAt(i) THEN mem[at] ELSE verify[PidAt(i)]
      BY <3>1, <2>1, <1>1 DEF IInv, Types
    <3>3. PidKnown(i)' /\ HolderKnown(i)'
      BY <1>1, <2>2, <2>3, <2>5, <3>1 DEF PidKnown, HolderKnown, PidCopied, UsedCopied, PidAt
    <3>4. Verified(i)'
      <4>1. CASE at = PidAt(i)
        <5>1. UsedCopied(i)
          BY <1>1, <2>5 DEF UsedCopied
        <5>2. mem[PidAt(i)] = data[PidAt(i)] /\ data[PidAt(i)] # 0
                => holder[i] = data[PidAt(i)]
          BY <5>1, <2>2, <2>3 DEF HolderKnown, LeftIsGone
        <5> QED BY <4>1, <5>2, <3>1, <3>2 DEF Verified, PidAt
      <4>2. CASE at # PidAt(i)
        <5>1. PidVerified(i)' => PidVerified(i)
          BY <1>1, <2>1, <2>2, <4>2 DEF PidVerified, PidAt
        <5> QED BY <4>2, <5>1, <2>3, <3>1, <3>2 DEF Verified, PidAt
      <4> QED BY <4>1, <4>2
    <3> QED BY <3>3, <3>4
  <2> QED BY <2>4, <2>5 DEF IInv, Types
<1> QED BY <1>2, <1>3, <1>4 DEF IInv

LEMMA ReadsAgain == IInv /\ CopyAgain => IInv'
<1> SUFFICES ASSUME IInv, CopyAgain PROVE IInv'
  OBVIOUS
<1>1. Types'
  BY Places DEF IInv, Types, CopyAgain, fileVars, seen, Fields, Slot
<1>2. LeftIsGone' /\ LeftWhileReading'
  BY DEF IInv, LeftIsGone, LeftWhileReading, CopyAgain, fileVars, seen
<1>3. ASSUME NEW i \in Slot PROVE (PidKnown(i) /\ HolderKnown(i) /\ Verified(i))'
  <2>1. PidAt(i) \in Nat /\ UsedAt(i) \in Nat /\ PidAt(i) > 0 /\ UsedAt(i) < FlagAt
        /\ PidAt(i) < UsedAt(i) /\ FlagAt \in Nat
    BY Places DEF Fields
  <2>2. PidCopied(i) /\ UsedCopied(i) /\ ~ PidVerified(i)'
    BY <2>1 DEF CopyAgain, PidCopied, UsedCopied, PidVerified, PidAt
  <2> QED
    BY <2>2 DEF IInv, PidKnown, HolderKnown, Verified, CopyAgain, fileVars, seen
<1> QED BY <1>1, <1>2, <1>3 DEF IInv

LEMMA ReaderSteps ==
  IInv /\ (Refuse \/ Open \/ CopyField \/ CopyTruncated \/ CopyAgain \/ Decode) => IInv'
<1> SUFFICES ASSUME IInv, Refuse \/ Open \/ CopyField \/ CopyTruncated \/ CopyAgain \/ Decode
             PROVE  IInv'
  OBVIOUS
<1>1. CASE Refuse
  BY <1>1, AttemptEnds DEF Refuse, Return
<1>2. CASE Open
  BY <1>2, AttemptEnds DEF Open
<1>3. CASE CopyTruncated
  BY <1>3, AttemptEnds DEF CopyTruncated, Return
<1>4. CASE Decode
  BY <1>4, AttemptEnds DEF Decode, Return
<1> QED BY <1>1, <1>2, <1>3, <1>4, ReadsField, ReadsAgain

-----------------------------------------------------------------------------
(* The runtime *)

(* A store to a field that is no pid changes nothing of the argument.      *)
LEMMA OtherStores ==
  ASSUME IInv, UNCHANGED <<quota, readVars, holder, left>>,
         NEW f \in Fields, NEW value \in Nat, \A i \in Slot : f # PidAt(i),
         mem' = [mem EXCEPT ![f] = value] \/ mem' = mem
  PROVE  IInv'
<1>1. Types'
  BY DEF IInv, Types, readVars, Fields, FlagAt, Slot
<1>2. \A i \in Slot : mem'[PidAt(i)] = mem[PidAt(i)]
  BY Places DEF IInv, Types
<1>3. LeftIsGone' /\ LeftWhileReading'
  BY <1>2 DEF IInv, LeftIsGone, LeftWhileReading, readVars, PidAt, Slot
<1>4. ASSUME NEW i \in Slot PROVE (PidKnown(i) /\ HolderKnown(i) /\ Verified(i))'
  BY <1>2 DEF IInv, PidKnown, HolderKnown, Verified, PidCopied, UsedCopied, PidVerified,
     readVars, PidAt, UsedAt
<1> QED BY <1>1, <1>3, <1>4 DEF IInv

(* Slots that change hands while they are read: what was there has left.   *)
LEMMA SlotsChangeHands ==
  ASSUME IInv, UNCHANGED <<quota, readVars, holder>>, mem' \in [Fields -> Nat],
         NEW Gone \in SUBSET Slot,
         left' = IF at = 0 THEN left ELSE left \cup {<<i, mem[PidAt(i)]>> : i \in Gone},
         \A i \in Slot : mem'[PidAt(i)] # mem[PidAt(i)] => i \in Gone,
         \A i \in Gone : mem'[PidAt(i)] = 0 \/
                          /\ mem'[PidAt(i)] # mem[PidAt(i)]
                          /\ <<i, mem'[PidAt(i)]>> \notin left
  PROVE  IInv'
<1>1. Types'
  BY DEF IInv, Types, readVars, Fields, FlagAt, Slot
<1>2. LeftIsGone'
  <2> SUFFICES ASSUME NEW i \in Slot, NEW p \in Nat \ {0}, <<i, p>> \in left'
               PROVE  mem'[PidAt(i)] # p
    BY DEF LeftIsGone, Slot, PidAt
  <2>1. CASE i \in Gone
    <3>1. <<i, p>> \in left \/ p = mem[PidAt(i)]
      BY DEF Slot
    <3> QED BY <2>1, <3>1
  <2>2. CASE i \notin Gone
    <3>1. <<i, p>> \in left
      BY <2>2
    <3> QED BY <2>2, <3>1 DEF IInv, LeftIsGone
  <2> QED BY <2>1, <2>2
<1>3. LeftWhileReading'
  BY DEF IInv, LeftWhileReading, readVars
<1>4. ASSUME NEW i \in Slot PROVE (PidKnown(i) /\ HolderKnown(i) /\ Verified(i))'
  <2>1. left \subseteq left'
    OBVIOUS
  <2>2. PidKnown(i)'
    <3> SUFFICES ASSUME PidCopied(i)'
                 PROVE  mem'[PidAt(i)] = data[PidAt(i)] \/ <<i, data[PidAt(i)]>> \in left'
      BY DEF PidKnown, PidAt, readVars
    <3>1. PidCopied(i) /\ at # 0
      BY DEF PidCopied, readVars, PidAt
    <3>2. mem[PidAt(i)] = data[PidAt(i)] \/ <<i, data[PidAt(i)]>> \in left
      BY <3>1 DEF IInv, PidKnown
    <3>3. mem'[PidAt(i)] # mem[PidAt(i)] => <<i, mem[PidAt(i)]>> \in left'
      BY <3>1
    <3> QED BY <2>1, <3>2, <3>3
  <2>3. HolderKnown(i)' /\ Verified(i)'
    BY <2>1 DEF IInv, HolderKnown, Verified, UsedCopied, PidVerified, readVars, PidAt, UsedAt
  <2> QED BY <2>2, <2>3
<1> QED BY <1>1, <1>2, <1>3, <1>4 DEF IInv

LEMMA PidStored ==
  ASSUME IInv, NEW i \in Slot, NEW p \in Pids, StorePid(i, p)
  PROVE  IInv'
<1>1. p \in Nat
  BY ShmemAssumption
<1>2. /\ mem \in [Fields -> Nat] /\ mem' = [mem EXCEPT ![PidAt(i)] = p] /\ mem[PidAt(i)] # p
      /\ UNCHANGED <<quota, readVars, holder>>
      /\ left' = IF at = 0 THEN left ELSE left \cup {<<i, mem[PidAt(i)]>>}
      /\ p # 0 => <<i, p>> \notin left
  BY DEF StorePid, Stores, IInv, Types, Idle
<1>3. mem' \in [Fields -> Nat] /\ mem'[PidAt(i)] = p
  BY <1>1, <1>2, Places
<1>4. \A j \in Slot : j # i => mem'[PidAt(j)] = mem[PidAt(j)]
  BY <1>2, Places
<1> DEFINE Gone == {i}
<1>5. left' = IF at = 0 THEN left ELSE left \cup {<<j, mem[PidAt(j)]>> : j \in Gone}
  BY <1>2
<1>6. /\ Gone \in SUBSET Slot
      /\ \A j \in Slot : mem'[PidAt(j)] # mem[PidAt(j)] => j \in Gone
      /\ \A j \in Gone : mem'[PidAt(j)] = 0 \/
                         /\ mem'[PidAt(j)] # mem[PidAt(j)]
                         /\ <<j, mem'[PidAt(j)]>> \notin left
  BY <1>2, <1>3, <1>4
<1> HIDE DEF Gone
<1> QED BY <1>2, <1>3, <1>5, <1>6, SlotsChangeHands

LEMMA FileTruncated == IInv /\ TruncateFile => IInv'
<1> SUFFICES ASSUME IInv, TruncateFile PROVE IInv'
  OBVIOUS
<1>1. \A i \in Slot : mem'[PidAt(i)] = 0
  BY ZerosType DEF TruncateFile
<1>2. /\ UNCHANGED <<quota, readVars, holder>> /\ mem' \in [Fields -> Nat]
      /\ left' = IF at = 0 THEN left ELSE left \cup {<<i, mem[PidAt(i)]>> : i \in Slot}
  BY ZerosType DEF TruncateFile, Idle, Slot
<1> QED BY <1>1, <1>2, SlotsChangeHands

LEMMA RuntimeSteps == IInv /\ Runtime => IInv'
<1> SUFFICES ASSUME IInv, Runtime PROVE IInv'
  OBVIOUS
<1>1. ASSUME NEW i \in Slot, NEW p \in Pids, StorePid(i, p) PROVE IInv'
  BY <1>1, PidStored
<1>2. ASSUME NEW i \in Slot, NEW u \in Usages, StoreUsed(i, u) PROVE IInv'
  <2>1. u \in Nat /\ UsedAt(i) \in Fields /\ \A j \in Slot : UsedAt(i) # PidAt(j)
    BY ShmemAssumption, Places
  <2> QED BY <1>2, <2>1, OtherStores DEF StoreUsed, Stores
<1>3. ASSUME NEW i \in Slot, NEW a \in {0, 1}, StoreActive(i, a) PROVE IInv'
  <2>1. a \in Nat /\ ActiveAt(i) \in Fields /\ \A j \in Slot : ActiveAt(i) # PidAt(j)
    BY Places
  <2> QED BY <1>3, <2>1, OtherStores DEF StoreActive, Stores
<1>4. CASE StoreLimit
  BY <1>4, Places, OtherStores DEF StoreLimit, Stores, IInv, Types
<1>5. CASE StoreFlag
  <2>1. 1 \in Nat /\ FlagAt \in Fields /\ \A j \in Slot : FlagAt # PidAt(j)
    BY Places
  <2> QED BY <1>5, <2>1, OtherStores DEF StoreFlag, Stores
<1>6. CASE CreateFile \/ GrowFile
  BY <1>6, Places, OtherStores DEF CreateFile, GrowFile, seen
<1> QED
  BY <1>1, <1>2, <1>3, <1>4, <1>5, <1>6, FileTruncated DEF Runtime, Slot

LEMMA Inductive == IInv /\ [Next]_vars => IInv'
<1> SUFFICES ASSUME IInv, [Next]_vars PROVE IInv'
  OBVIOUS
<1>1. CASE UNCHANGED vars
  BY <1>1, Places, OtherStores DEF vars, fileVars, seen
<1> QED BY <1>1, ReaderSteps, RuntimeSteps DEF Next

(* A pid that is counted is positive, so it is not the 0 of a free slot.   *)
LEMMA InvariantSuffices == IInv => UsageOfHolder
<1> SUFFICES ASSUME IInv, at = FlagAt + 1, pass = "verify", NEW i \in Slot,
                    SameSlot(data, verify, i), Counted(data, i)
             PROVE  holder[i] = data[PidAt(i)]
  BY DEF UsageOfHolder, Slot
<1>1. PidVerified(i)
  BY Places DEF PidVerified, Fields
<1>2. data[PidAt(i)] # 0
  BY ShmemAssumption DEF Counted, Signed
<1> QED BY <1>1, <1>2 DEF IInv, Verified, SameSlot

(* A usage that readMemory counts was copied while the process it is       *)
(* counted for held the slot.                                              *)
THEOREM CountedForHolder == Spec => []UsageOfHolder
<1>1. Init => IInv
  BY InitHolds
<1>2. IInv /\ [Next]_vars => IInv'
  BY Inductive
<1>3. IInv => UsageOfHolder
  BY InvariantSuffices
<1> QED BY <1>1, <1>2, <1>3, PTL DEF Spec

-----------------------------------------------------------------------------
(* The head of the file: limit and flag. *)

HeadInv ==
  /\ Types
  /\ mem[LimitAt] \in {0, quota}
  /\ mem[FlagAt] = 1 => mem[LimitAt] = quota
  /\ at # 0 /\ (pass = "verify" \/ at > LimitAt) => data[LimitAt] \in {0, quota}
  /\ at # 0 /\ (pass = "verify" \/ at > FlagAt) /\ data[FlagAt] = 1 /\ ~ cut
       => mem[FlagAt] = 1
  /\ pass = "verify" /\ at > LimitAt /\ data[FlagAt] = 1 /\ ~ cut
       => verify[LimitAt] = quota

LEMMA HeadPlaces ==
  /\ LimitAt \in Fields /\ FlagAt \in Fields /\ LimitAt = 1 /\ FlagAt \in Nat /\ FlagAt > 1
  /\ \A i \in Slot :
       /\ {PidAt(i), UsedAt(i), ActiveAt(i)} \subseteq Fields
       /\ LimitAt \notin {PidAt(i), UsedAt(i), ActiveAt(i)}
       /\ FlagAt \notin {PidAt(i), UsedAt(i), ActiveAt(i)}
  BY ShmemAssumption DEF LimitAt, FlagAt, PidAt, UsedAt, ActiveAt, Fields, Slot

LEMMA HeadInit == Init => HeadInv
<1> SUFFICES ASSUME Init PROVE HeadInv
  OBVIOUS
<1>1. Types
  BY InitHolds DEF IInv
<1>2. Zeros[LimitAt] = 0 /\ Zeros[FlagAt] = 0 /\ Zeros \in [Fields -> Nat]
  BY HeadPlaces DEF Zeros
<1>3. mem[LimitAt] \in {0, quota} /\ (mem[FlagAt] = 1 => mem[LimitAt] = quota)
  <2>1. CASE file \in {"absent", "other"}
    BY <1>2, <2>1 DEF Init
  <2>2. CASE mem = [Zeros EXCEPT ![FlagAt] = 2]
    BY <1>2, <2>2, HeadPlaces
  <2>3. CASE \E p, q \in Pids, u, w \in Usages :
               /\ Slots >= 2
               /\ mem = [Zeros EXCEPT ![FlagAt] = 1, ![LimitAt] = quota,
                           ![PidAt(1)] = p, ![UsedAt(1)] = u, ![ActiveAt(1)] = 1,
                           ![PidAt(2)] = q, ![UsedAt(2)] = w, ![ActiveAt(2)] = 1]
    BY <1>2, <2>3, HeadPlaces DEF Slot
  <2> QED BY <2>1, <2>2, <2>3 DEF Init
<1> QED BY <1>1, <1>3 DEF Init, HeadInv

LEMMA HeadAttemptEnds ==
  ASSUME HeadInv, Types', UNCHANGED fileVars, (at' = 0 \/ at' = 1) /\ pass' = "data"
  PROVE  HeadInv'
  BY HeadPlaces DEF HeadInv, fileVars, LimitAt, FlagAt

LEMMA HeadReads == HeadInv /\ CopyField /\ Types' => HeadInv'
<1> SUFFICES ASSUME HeadInv, CopyField, Types' PROVE HeadInv'
  OBVIOUS
<1>1. /\ at \in Fields /\ at \in Nat /\ at > 0 /\ at' = at + 1
      /\ mem' = mem /\ quota' = quota /\ cut' = cut /\ pass' = pass
      /\ FlagAt' = FlagAt /\ LimitAt' = LimitAt
  BY DEF CopyField, Fields, fileVars, FlagAt, LimitAt
<1>2. CASE pass = "data"
  <2>1. /\ data' = [data EXCEPT ![at] = mem[at]] /\ data \in [Fields -> Nat]
    BY <1>2 DEF CopyField, HeadInv, Types
  <2>2. /\ data'[LimitAt] = IF at = LimitAt THEN mem[LimitAt] ELSE data[LimitAt]
        /\ data'[FlagAt] = IF at = FlagAt THEN mem[FlagAt] ELSE data[FlagAt]
    BY <1>1, <2>1, HeadPlaces
  <2>3. at' > LimitAt => at = LimitAt \/ at > LimitAt
    BY <1>1, HeadPlaces
  <2>4. at' > FlagAt => at = FlagAt
    BY <1>1, HeadPlaces DEF Fields
  <2> QED BY <1>1, <1>2, <2>2, <2>3, <2>4 DEF HeadInv
<1>3. CASE pass = "verify"
  <2>1. /\ verify' = [verify EXCEPT ![at] = mem[at]] /\ verify \in [Fields -> Nat]
        /\ data' = data
    BY <1>3 DEF CopyField, HeadInv, Types
  <2>2. verify'[LimitAt] = IF at = LimitAt THEN mem[LimitAt] ELSE verify[LimitAt]
    BY <1>1, <2>1, HeadPlaces
  <2>3. at' > LimitAt => at = LimitAt \/ at > LimitAt
    BY <1>1, HeadPlaces
  <2> QED BY <1>1, <1>3, <2>1, <2>2, <2>3 DEF HeadInv
<1> QED BY <1>2, <1>3 DEF HeadInv, Types

LEMMA HeadReadsAgain == HeadInv /\ CopyAgain /\ Types' => HeadInv'
<1> SUFFICES ASSUME HeadInv, CopyAgain, Types' PROVE HeadInv'
  OBVIOUS
<1>1. /\ mem' = mem /\ quota' = quota /\ cut' = cut /\ data' = data /\ at' = 1
      /\ FlagAt' = FlagAt /\ LimitAt' = LimitAt
  BY DEF CopyAgain, fileVars, seen, FlagAt, LimitAt
<1>2. at # 0 /\ at > LimitAt /\ at > FlagAt
  BY HeadPlaces DEF CopyAgain
<1> QED BY <1>1, <1>2, HeadPlaces DEF HeadInv

(* Stores of the runtime that leave the head alone                         *)
LEMMA HeadLeftAlone ==
  ASSUME HeadInv, Types', UNCHANGED <<quota, readVars, cut>>,
         mem'[LimitAt] = mem[LimitAt], mem'[FlagAt] = mem[FlagAt]
  PROVE  HeadInv'
  BY DEF HeadInv, readVars, LimitAt, FlagAt

LEMMA HeadStores == HeadInv /\ Runtime /\ Types' => HeadInv'
<1> SUFFICES ASSUME HeadInv, Runtime, Types' PROVE HeadInv'
  OBVIOUS
<1>1. mem \in [Fields -> Nat]
  BY DEF HeadInv, Types
<1>2. ASSUME NEW i \in Slot, NEW p \in Pids, StorePid(i, p) PROVE HeadInv'
  BY <1>1, <1>2, HeadPlaces, HeadLeftAlone DEF StorePid, Stores
<1>3. ASSUME NEW i \in Slot, NEW u \in Usages, StoreUsed(i, u) PROVE HeadInv'
  BY <1>1, <1>3, HeadPlaces, HeadLeftAlone DEF StoreUsed, Stores
<1>4. ASSUME NEW i \in Slot, NEW a \in {0, 1}, StoreActive(i, a) PROVE HeadInv'
  BY <1>1, <1>4, HeadPlaces, HeadLeftAlone DEF StoreActive, Stores
<1>5. CASE StoreLimit
  <2>1. /\ mem'[LimitAt] = quota /\ mem'[FlagAt] = mem[FlagAt] /\ mem[FlagAt] = 0
        /\ UNCHANGED <<quota, readVars, cut>>
    BY <1>1, <1>5, HeadPlaces DEF StoreLimit, Stores
  <2> QED BY <2>1 DEF HeadInv, readVars, LimitAt, FlagAt
<1>6. CASE StoreFlag
  <2>1. /\ mem'[LimitAt] = quota /\ mem[LimitAt] = quota /\ mem'[FlagAt] = 1
        /\ UNCHANGED <<quota, readVars, cut>>
    BY <1>1, <1>6, HeadPlaces DEF StoreFlag, Stores
  <2> QED BY <2>1 DEF HeadInv, readVars, LimitAt, FlagAt
<1>7. CASE CreateFile \/ GrowFile
  BY <1>7, HeadLeftAlone DEF CreateFile, GrowFile, seen
<1>8. CASE TruncateFile
  <2>1. /\ mem'[LimitAt] = 0 /\ mem'[FlagAt] = 0 /\ UNCHANGED <<quota, readVars>>
        /\ at # 0 => cut'
    BY <1>8, HeadPlaces DEF TruncateFile, Zeros, Idle
  <2>2. at = 0 => ~ (at > LimitAt)
    BY HeadPlaces
  <2> QED BY <2>1, <2>2, HeadPlaces DEF HeadInv, readVars, LimitAt, FlagAt, Types
<1> QED
  BY <1>2, <1>3, <1>4, <1>5, <1>6, <1>7, <1>8 DEF Runtime, Slot

LEMMA HeadInductive == HeadInv /\ Types' /\ [Next]_vars => HeadInv'
<1> SUFFICES ASSUME HeadInv, Types', [Next]_vars PROVE HeadInv'
  OBVIOUS
<1>1. CASE UNCHANGED vars
  BY <1>1, HeadLeftAlone DEF vars, fileVars, seen
<1>2. CASE Refuse
  BY <1>2, HeadAttemptEnds DEF Refuse, Return
<1>3. CASE Open
  BY <1>3, HeadAttemptEnds DEF Open
<1>4. CASE CopyTruncated
  BY <1>4, HeadAttemptEnds DEF CopyTruncated, Return
<1>5. CASE Decode
  BY <1>5, HeadAttemptEnds DEF Decode, Return
<1> QED
  BY <1>1, <1>2, <1>3, <1>4, <1>5, HeadReads, HeadReadsAgain, HeadStores DEF Next

(* The limit that readMemory answers is the quota the runtime was given,   *)
(* also when the runtime sets the file up during the two copies.           *)
THEOREM LimitComesFromQuota == Spec => []LimitIsQuota
<1>1. Init => IInv /\ HeadInv
  BY InitHolds, HeadInit
<1>2. IInv /\ HeadInv /\ [Next]_vars => (IInv /\ HeadInv)'
  <2>1. IInv' => Types'
    BY DEF IInv
  <2> QED BY <2>1, Inductive, HeadInductive
<1>3. HeadInv => LimitIsQuota
  BY HeadPlaces DEF HeadInv, LimitIsQuota, SameHead
<1> QED BY <1>1, <1>2, <1>3, PTL DEF Spec

-----------------------------------------------------------------------------
(* The loop over the slots is a recursive function; induction over it, as  *)
(* a statement about sets of numbers.                                      *)
LEMMA NatInductive ==
  ASSUME NEW S, 0 \in S, \A n \in Nat : n \in S => n + 1 \in S
  PROVE  Nat \subseteq S
<1> DEFINE R == OpToRel(<, Nat)
           T == Nat \ S
<1>1. IsWellFoundedOn(R, Nat)
  BY NatLessThanWellFounded
<1>2. \A x, y \in Nat : x < y => <<x, y>> \in R
  BY DEF OpToRel
<1> HIDE DEF R
<1>3. SUFFICES ASSUME T # {} PROVE FALSE
  OBVIOUS
<1>4. PICK x \in T : \A y \in T : ~ (<<y, x>> \in R)
  BY <1>1, <1>3, WFMin
<1>5. x # 0 /\ x - 1 \in Nat /\ x - 1 < x
  BY <1>4
<1>6. x - 1 \in S
  BY <1>2, <1>4, <1>5
<1> QED BY <1>4, <1>5, <1>6

LEMMA UptoInductive ==
  ASSUME NEW n \in Nat, NEW S, 0 \in S, \A i \in 1 .. n : i - 1 \in S => i \in S
  PROVE  0 .. n \subseteq S
<1> DEFINE T == {m \in Nat : m <= n => m \in S}
<1>1. 0 \in T
  OBVIOUS
<1>2. ASSUME NEW m \in Nat, m \in T PROVE m + 1 \in T
  <2>1. m + 1 <= n => m + 1 \in 1 .. n /\ (m + 1) - 1 \in S
    BY <1>2
  <2> QED BY <2>1
<1> HIDE DEF T
<1>3. Nat \subseteq T
  BY <1>1, <1>2, NatInductive
<1> QED BY <1>3 DEF T

(* A function that is given by its value at 0 and by the one before exists.*)
Iterates(f, z, n, G) == f[0] = z /\ \A i \in 1 .. n : f[i] = G[<<i, f[i - 1]>>]

LEMMA Recursion ==
  ASSUME NEW S, NEW z \in S, NEW n \in Nat, NEW G \in [(1 .. n) \X S -> S]
  PROVE  \E f \in [0 .. n -> S] : Iterates(f, z, n, G)
<1> DEFINE Good == {m \in Nat : m <= n => \E f \in [0 .. m -> S] : Iterates(f, z, m, G)}
<1>1. 0 \in Good
  <2> DEFINE f == [i \in 0 .. 0 |-> z]
  <2>1. f \in [0 .. 0 -> S] /\ Iterates(f, z, 0, G)
    BY DEF Iterates
  <2> QED BY <2>1
<1>2. ASSUME NEW m \in Nat, m \in Good PROVE m + 1 \in Good
  <2> SUFFICES ASSUME m + 1 <= n PROVE \E f \in [0 .. m + 1 -> S] : Iterates(f, z, m + 1, G)
    OBVIOUS
  <2>1. PICK f \in [0 .. m -> S] : Iterates(f, z, m, G)
    BY <1>2
  <2> DEFINE g == [i \in 0 .. m + 1 |-> IF i = m + 1 THEN G[<<m + 1, f[m]>>] ELSE f[i]]
  <2>2. G[<<m + 1, f[m]>>] \in S
    BY <2>1 DEF Iterates
  <2>3. g \in [0 .. m + 1 -> S] /\ g[m + 1] = G[<<m + 1, f[m]>>] /\ \A i \in 0 .. m : g[i] = f[i]
    BY <2>2
  <2> HIDE DEF g
  <2>4. \A i \in 1 .. m : g[i] = G[<<i, g[i - 1]>>]
    BY <2>1, <2>3 DEF Iterates
  <2>5. g[m + 1] = G[<<m + 1, g[(m + 1) - 1]>>]
    BY <2>3
  <2>7. \A i \in 1 .. m + 1 : i \in 1 .. m \/ i = m + 1
    OBVIOUS
  <2>8. g[0] = z
    BY <2>1, <2>3 DEF Iterates
  <2>6. Iterates(g, z, m + 1, G)
    BY <2>4, <2>5, <2>7, <2>8 DEF Iterates
  <2> QED BY <2>3, <2>6
<1> HIDE DEF Good
<1>3. n \in Good
  BY <1>1, <1>2, NatInductive
<1> QED BY <1>3 DEF Good

(* One turn of the loop, and the loop as a function.                       *)
Turn(d, v, i, s) ==
  CASE s.state # "ok" -> s
    [] s.state = "ok" /\ ~ SameSlot(d, v, i) -> Failed("again")
    [] OTHER -> IF Counted(d, i) THEN Add(s, d[UsedAt(i)]) ELSE s

Sums == [state : {"ok", "again", "overflow"}, used : Nat, limit : Nat]

Start(d) == [state |-> "ok", used |-> 0, limit |-> d[LimitAt]]

Amount(d, i) == IF Counted(d, i) THEN d[UsedAt(i)] ELSE 0

LEMMA TurnTyped ==
  ASSUME NEW d \in [Fields -> Nat], NEW v, NEW i \in Slot, NEW s \in Sums
  PROVE  Turn(d, v, i, s) \in Sums /\ Amount(d, i) \in Nat
<1>1. d[UsedAt(i)] \in Nat
  BY Places
<1> QED BY <1>1, ShmemAssumption DEF Turn, Sums, Failed, Add, Amount

LEMMA SumIsLoop ==
  ASSUME NEW d \in [Fields -> Nat], NEW v
  PROVE  \E f \in [0 .. Slots -> Sums] :
           /\ f[0] = Start(d) /\ \A i \in Slot : f[i] = Turn(d, v, i, f[i - 1])
           /\ SumOf(d, v) = f[Slots]
<1> DEFINE G == [x \in Slot \X Sums |-> Turn(d, v, x[1], x[2])]
           Is(f) == f = [i \in 0 .. Slots |-> IF i = 0 THEN Start(d) ELSE Turn(d, v, i, f[i - 1])]
<1>1. Start(d) \in Sums
  BY Places DEF Start, Sums
<1>2. /\ G \in [(1 .. Slots) \X Sums -> Sums]
      /\ \A i \in Slot : \A r \in Sums : G[<<i, r>>] = Turn(d, v, i, r)
  BY TurnTyped DEF Slot
<1> HIDE DEF G
<1>13. Slots \in Nat
  BY ShmemAssumption
<1>3. PICK f \in [0 .. Slots -> Sums] : Iterates(f, Start(d), Slots, G)
  BY <1>1, <1>2, <1>13, Recursion
<1>4. \A i \in Slot : f[i] = Turn(d, v, i, f[i - 1])
  <2> SUFFICES ASSUME NEW i \in Slot PROVE f[i] = Turn(d, v, i, f[i - 1])
    OBVIOUS
  <2>1. i \in 1 .. Slots /\ i - 1 \in 0 .. Slots
    BY ShmemAssumption DEF Slot
  <2> QED BY <1>2, <1>3, <2>1 DEF Iterates
<1>5. Is(f)
  <2>1. f = [i \in 0 .. Slots |-> f[i]]
    BY <1>3
  <2>2. \A i \in 0 .. Slots : f[i] = IF i = 0 THEN Start(d) ELSE Turn(d, v, i, f[i - 1])
    BY <1>3, <1>4, ShmemAssumption DEF Slot, Iterates
  <2>3. [i \in 0 .. Slots |-> f[i]]
          = [i \in 0 .. Slots |-> IF i = 0 THEN Start(d) ELSE Turn(d, v, i, f[i - 1])]
    BY <2>2, Zenon
  <2> QED BY <2>1, <2>3, Zenon
<1>6. PICK g : Is(g) /\ SumOf(d, v) = g[Slots]
  BY <1>5 DEF SumOf, Turn, Start
<1>7. DOMAIN g = 0 .. Slots /\ g[0] = Start(d) /\ \A i \in Slot : g[i] = Turn(d, v, i, g[i - 1])
  BY <1>6, ShmemAssumption DEF Slot
<1> DEFINE Good == {m \in 0 .. Slots : g[m] \in Sums}
<1>8. 0 \in Good
  BY <1>1, <1>7, <1>13
<1>9. ASSUME NEW m \in 1 .. Slots, m - 1 \in Good PROVE m \in Good
  BY <1>7, <1>9, TurnTyped DEF Slot
<1>10. 0 .. Slots \subseteq Good
  <2> HIDE DEF Good
  <2> QED BY <1>8, <1>9, <1>13, UptoInductive
<1>11. \A m \in 0 .. Slots : g[m] \in Sums
  BY <1>10
<1>12. g \in [0 .. Slots -> Sums]
  <2>1. g = [i \in 0 .. Slots |-> g[i]]
    BY <1>6, <1>7
  <2> QED BY <1>11, <2>1
<1> QED BY <1>6, <1>7, <1>12

(* The sum of the usages that count, as an integer.                        *)
Total(d) ==
  LET total[i \in 0 .. Slots] ==
        IF i = 0 THEN 0
        ELSE total[i - 1] + IF Counted(d, i) THEN d[UsedAt(i)] ELSE 0
  IN total[Slots]

LEMMA TotalIsLoop ==
  ASSUME NEW d \in [Fields -> Nat]
  PROVE  \E t \in [0 .. Slots -> Nat] :
           /\ t[0] = 0 /\ \A i \in Slot : t[i] = t[i - 1] + Amount(d, i)
           /\ Total(d) = t[Slots]
<1> DEFINE G == [x \in Slot \X Nat |-> x[2] + Amount(d, x[1])]
           Is(f) == f = [i \in 0 .. Slots |-> IF i = 0 THEN 0 ELSE f[i - 1] + Amount(d, i)]
<1>1. Slots \in Nat
  BY ShmemAssumption
<1>2. \A i \in Slot : Amount(d, i) \in Nat
  BY Places DEF Amount
<1>3. /\ G \in [(1 .. Slots) \X Nat -> Nat]
      /\ \A i \in Slot : \A r \in Nat : G[<<i, r>>] = r + Amount(d, i)
  BY <1>2 DEF Slot
<1> HIDE DEF G
<1>4. PICK f \in [0 .. Slots -> Nat] : Iterates(f, 0, Slots, G)
  BY <1>1, <1>3, Recursion
<1>5. Is(f)
  <2>1. f = [i \in 0 .. Slots |-> f[i]]
    BY <1>4
  <2>2. ASSUME NEW i \in 1 .. Slots PROVE f[i] = f[i - 1] + Amount(d, i)
    <3>1. i \in Slot /\ i - 1 \in 0 .. Slots
      BY <1>1 DEF Slot
    <3>2. f[i - 1] \in Nat
      BY <1>4, <3>1
    <3>3. f[i] = G[<<i, f[i - 1]>>]
      BY <1>4 DEF Iterates
    <3> QED BY <1>3, <3>1, <3>2, <3>3
  <2>3. \A i \in 0 .. Slots : f[i] = IF i = 0 THEN 0 ELSE f[i - 1] + Amount(d, i)
    BY <1>1, <1>4, <2>2 DEF Iterates
  <2>4. [i \in 0 .. Slots |-> f[i]]
          = [i \in 0 .. Slots |-> IF i = 0 THEN 0 ELSE f[i - 1] + Amount(d, i)]
    BY <2>3, Zenon
  <2> QED BY <2>1, <2>4, Zenon
<1>6. PICK t : Is(t) /\ Total(d) = t[Slots]
  BY <1>5 DEF Total, Amount
<1>7. t[0] = 0 /\ \A i \in 1 .. Slots : t[i] = t[i - 1] + Amount(d, i)
  BY <1>1, <1>6
<1> DEFINE Good == {m \in 0 .. Slots : t[m] \in Nat}
<1>8. 0 \in Good
  BY <1>1, <1>7
<1>9. ASSUME NEW m \in 1 .. Slots, m - 1 \in Good PROVE m \in Good
  BY <1>2, <1>7, <1>9 DEF Slot
<1>10. 0 .. Slots \subseteq Good
  <2> HIDE DEF Good
  <2> QED BY <1>1, <1>8, <1>9, UptoInductive
<1>11. t \in [0 .. Slots -> Nat]
  <2>1. t = [i \in 0 .. Slots |-> t[i]]
    BY <1>6
  <2> QED BY <1>10, <2>1
<1> QED BY <1>6, <1>7, <1>11 DEF Slot

(* What the loop answers: the sum, or why there is none.                   *)
LEMMA SumFits ==
  ASSUME NEW d \in [Fields -> Nat], NEW v
  PROVE  /\ SumOf(d, v) \in Sums
         /\ SumOf(d, v).state = "ok" => /\ SumOf(d, v).used = Total(d)
                                        /\ SumOf(d, v).used <= MaxUint
                                        /\ SumOf(d, v).limit = d[LimitAt]
         /\ SumOf(d, v).state # "ok" => SumOf(d, v).used = 0 /\ SumOf(d, v).limit = 0
         /\ SumOf(d, v).state = "overflow" => Total(d) > MaxUint
<1>1. Slots \in Nat /\ MaxUint \in Nat
  BY ShmemAssumption
<1>2. PICK f \in [0 .. Slots -> Sums] :
        /\ f[0] = Start(d) /\ \A i \in Slot : f[i] = Turn(d, v, i, f[i - 1])
        /\ SumOf(d, v) = f[Slots]
  BY SumIsLoop
<1>3. PICK t \in [0 .. Slots -> Nat] :
        /\ t[0] = 0 /\ \A i \in Slot : t[i] = t[i - 1] + Amount(d, i)
        /\ Total(d) = t[Slots]
  BY TotalIsLoop
<1> DEFINE Right(s, n) ==
             /\ s.state = "ok" => s.used = n /\ s.used <= MaxUint /\ s.limit = d[LimitAt]
             /\ s.state # "ok" => s.used = 0 /\ s.limit = 0
             /\ s.state = "overflow" => n > MaxUint
           Good == {m \in 0 .. Slots : Right(f[m], t[m])}
<1>4. 0 \in Good
  BY <1>1, <1>2, <1>3 DEF Start
<1>5. ASSUME NEW s \in Sums, NEW n \in Nat, NEW i \in Slot, Right(s, n)
      PROVE  Right(Turn(d, v, i, s), n + Amount(d, i))
  <2>1. d[UsedAt(i)] \in Nat /\ Amount(d, i) \in Nat
    BY Places DEF Amount
  <2>2. CASE s.state # "ok"
    <3>1. Turn(d, v, i, s) = s
      BY <2>2 DEF Turn
    <3> QED BY <1>1, <1>5, <2>1, <2>2, <3>1
  <2>3. CASE s.state = "ok" /\ ~ SameSlot(d, v, i)
    <3>1. Turn(d, v, i, s) = Failed("again")
      BY <2>3 DEF Turn
    <3> QED BY <3>1 DEF Failed
  <2>4. CASE s.state = "ok" /\ SameSlot(d, v, i) /\ ~ Counted(d, i)
    <3>1. Turn(d, v, i, s) = s /\ Amount(d, i) = 0
      BY <2>4 DEF Turn, Amount
    <3> QED BY <1>5, <3>1
  <2>5. CASE s.state = "ok" /\ SameSlot(d, v, i) /\ Counted(d, i)
    <3>1. Turn(d, v, i, s) = Add(s, d[UsedAt(i)]) /\ Amount(d, i) = d[UsedAt(i)]
      BY <2>5 DEF Turn, Amount
    <3>2. CASE d[UsedAt(i)] > MaxUint - s.used
      <4>1. Turn(d, v, i, s) = Failed("overflow")
        BY <3>1, <3>2 DEF Add
      <4>2. n + Amount(d, i) > MaxUint
        BY <1>1, <1>5, <2>1, <2>5, <3>1, <3>2
      <4> QED BY <4>1, <4>2 DEF Failed
    <3>3. CASE ~ (d[UsedAt(i)] > MaxUint - s.used)
      <4>1. Turn(d, v, i, s) = [s EXCEPT !.used = @ + d[UsedAt(i)]]
        BY <3>1, <3>3 DEF Add
      <4> QED BY <1>1, <1>5, <2>1, <2>5, <3>1, <3>3, <4>1 DEF Sums
    <3> QED BY <3>2, <3>3
  <2> QED BY <2>2, <2>3, <2>4, <2>5
<1> HIDE DEF Right
<1>6. ASSUME NEW m \in 1 .. Slots, m - 1 \in Good PROVE m \in Good
  <2>1. m \in Slot /\ m - 1 \in 0 .. Slots
    BY <1>1 DEF Slot
  <2>2. f[m - 1] \in Sums /\ t[m - 1] \in Nat /\ Right(f[m - 1], t[m - 1])
    BY <1>6, <2>1
  <2>3. Right(f[m], t[m])
    BY <1>2, <1>3, <1>5, <2>1, <2>2
  <2> QED BY <2>3
<1>7. 0 .. Slots \subseteq Good
  <2> HIDE DEF Good
  <2> QED BY <1>1, <1>4, <1>6, UptoInductive
<1>8. Right(f[Slots], t[Slots]) /\ f[Slots] \in Sums
  BY <1>1, <1>7
<1> QED BY <1>2, <1>3, <1>8 DEF Right

(* The answer is the exact sum over the slots that count, for any number   *)
(* of slots and any width: no remainder, and no overflow that is none.     *)
THEOREM SumsAreExact == Spec => []SumIsExact
<1>1. Init => IInv
  BY InitHolds
<1>2. IInv /\ [Next]_vars => IInv'
  BY Inductive
<1>3. IInv => SumIsExact
  <2> SUFFICES ASSUME IInv PROVE SumIsExact
    OBVIOUS
  <2>1. data \in [Fields -> Nat]
    BY DEF IInv, Types
  <2> DEFINE r == decodeMemory(data, verify)
  <2>2. r = SumOf(data, verify) \/ r.state \notin {"ok", "overflow"}
    BY DEF decodeMemory, Failed
  <2>3. (r.state = "ok" => r.used = Total(data)) /\ (r.state = "overflow" => Total(data) > MaxUint)
    BY <2>1, <2>2, SumFits
  <2> QED BY <2>3 DEF SumIsExact, Total
<1> QED BY <1>1, <1>2, <1>3, PTL DEF Spec

-----------------------------------------------------------------------------
(* The types *)

Values == (0 .. 2 * SignBit - 1) \cup (0 .. MaxUint)

LEMMA ValuesHold ==
  /\ Values \subseteq Nat /\ 0 \in Values /\ 1 \in Values /\ 2 \in Values
  /\ Pids \subseteq Values /\ Usages \subseteq Values /\ Quotas \subseteq Values
  /\ Zeros \in [Fields -> Values]
BY ShmemAssumption DEF Values, Zeros

(* An answer has its types when the limit copied is the quota or none.     *)
LEMMA AnswerTyped ==
  ASSUME data \in [Fields -> Nat], data[LimitAt] \in 0 .. MaxUint
  PROVE  LET r == decodeMemory(data, verify) IN
           /\ r.state \in Errors \cup {"ok"}
           /\ r.used \in 0 .. MaxUint /\ r.limit \in 0 .. MaxUint
<1>1. MaxUint \in Nat
  BY ShmemAssumption
<1> DEFINE r == decodeMemory(data, verify)
<1>2. r = SumOf(data, verify) \/ r \in {Failed(e) : e \in Errors}
  BY DEF decodeMemory, Errors
<1>3. CASE r \in {Failed(e) : e \in Errors}
  BY <1>1, <1>3 DEF Failed
<1>4. CASE r = SumOf(data, verify)
  <2>1. r.state \in {"ok", "again", "overflow"} /\ r.used \in 0 .. MaxUint /\ r.limit \in 0 .. MaxUint
    BY <1>1, <1>4, SumFits DEF Sums
  <2> QED BY <2>1 DEF Errors
<1> QED BY <1>2, <1>3, <1>4

LEMMA ShmemTypesInit == Init => ShmemTypeOK
<1> SUFFICES ASSUME Init PROVE ShmemTypeOK
  OBVIOUS
<1>1. mem \in [Fields -> Values] /\ quota \in Quotas
  BY ValuesHold DEF Init
<1>2. file \in {"absent", "other", "short", "full"} /\ FlagAt \in Nat
  BY HeadPlaces DEF Init
<1> QED BY <1>1, <1>2, ValuesHold DEF Init, ShmemTypeOK, Values

LEMMA ShmemTypesStep ==
  ASSUME ShmemTypeOK, IInv, HeadInv, quota \in Quotas, [Next]_vars
  PROVE  ShmemTypeOK' /\ quota' \in Quotas
<1>1. /\ mem \in [Fields -> Values] /\ data \in [Fields -> Values] /\ verify \in [Fields -> Values]
      /\ FlagAt \in Nat /\ FlagAt' = FlagAt /\ at \in 0 .. FlagAt + 1
      /\ Values \subseteq Nat
  BY HeadPlaces, ValuesHold DEF ShmemTypeOK, Values, FlagAt
<1> DEFINE Answer(q) == /\ q.state \in (Errors \ {"again"}) \cup {"ok"}
                        /\ q.used \in 0 .. MaxUint /\ q.limit \in 0 .. MaxUint
           Reader == /\ at \in 0 .. FlagAt + 1 /\ pass \in {"data", "verify"} /\ attempt \in {0, 1}
                     /\ data \in [Fields -> Values] /\ verify \in [Fields -> Values]
                     /\ result = Nil \/ Answer(result)
           Memory == file \in {"absent", "other", "short", "full"} /\ mem \in [Fields -> Values]
<1>2. /\ ShmemTypeOK <=> Memory /\ Reader
      /\ ShmemTypeOK' <=> Memory' /\ Reader'
  BY DEF ShmemTypeOK, Values
<1>3. \A e \in Errors \ {"again"} : Answer(Failed(e))
  BY ShmemAssumption DEF Failed
<1>4. ASSUME NEW q, Return(q), Answer(q) PROVE Reader'
  BY <1>1, <1>4, ValuesHold DEF Return
<1>5. UNCHANGED fileVars => Memory' /\ quota' = quota
  BY <1>2 DEF fileVars
<1>6. UNCHANGED readVars => Reader'
  BY <1>1, <1>2 DEF readVars
<1>7. CASE UNCHANGED vars
  BY <1>2, <1>5, <1>6, <1>7 DEF vars
<1>8. CASE Refuse \/ CopyTruncated
  <2>1. \E e \in Errors \ {"again"} : Return(Failed(e))
    BY <1>8 DEF Refuse, CopyTruncated, Errors
  <2>2. UNCHANGED fileVars
    BY <1>8 DEF Refuse, CopyTruncated
  <2> HIDE DEF Answer, Reader, Memory
  <2> QED BY <1>2, <1>3, <1>4, <1>5, <2>1, <2>2
<1>9. CASE Open \/ CopyAgain
  <2>1. Reader'
    BY <1>1, <1>2, <1>9, HeadPlaces DEF Open, CopyAgain
  <2>2. UNCHANGED fileVars
    BY <1>9 DEF Open, CopyAgain
  <2> QED BY <1>2, <1>5, <2>1, <2>2
<1>10. CASE CopyField
  <2>1. at \in Fields /\ at \in Nat /\ at <= FlagAt /\ mem[at] \in Values
    BY <1>1, <1>10 DEF CopyField, Fields
  <2>2. data' \in [Fields -> Values] /\ verify' \in [Fields -> Values]
    BY <1>1, <1>10, <2>1 DEF CopyField
  <2>3. Reader'
    BY <1>1, <1>2, <1>10, <2>1, <2>2 DEF CopyField
  <2>4. UNCHANGED fileVars
    BY <1>10 DEF CopyField
  <2> QED BY <1>2, <1>5, <2>3, <2>4
<1>11. CASE Decode
  <2> DEFINE r == decodeMemory(data, verify)
  <2>1. r.state \in Errors \cup {"ok"} /\ r.used \in 0 .. MaxUint /\ r.limit \in 0 .. MaxUint
    <3>1. data[LimitAt] \in {0, quota}
      BY <1>11, HeadPlaces DEF Decode, HeadInv
    <3>2. data[LimitAt] \in 0 .. MaxUint
      BY <3>1, ShmemAssumption
    <3>3. data \in [Fields -> Nat]
      BY DEF IInv, Types
    <3> QED BY <3>2, <3>3, AnswerTyped
  <2>2. r.state # "again" => Answer(r)
    BY <2>1
  <2>3. Answer(Failed("changed"))
    BY <1>3 DEF Errors
  <2>4. \/ Return(r) /\ r.state # "again"
        \/ Return(Failed("changed"))
        \/ /\ UNCHANGED result /\ at' = 1 /\ pass' = "data" /\ attempt' = 1
           /\ data' = Zeros /\ verify' = Zeros
    BY <1>11 DEF Decode
  <2>5. UNCHANGED fileVars
    BY <1>11 DEF Decode
  <2>6. (/\ UNCHANGED result /\ at' = 1 /\ pass' = "data" /\ attempt' = 1
         /\ data' = Zeros /\ verify' = Zeros) => Reader'
    BY <1>1, <1>2, ValuesHold
  <2> HIDE DEF Answer, Reader, Memory, r
  <2> QED BY <1>2, <1>4, <1>5, <2>2, <2>3, <2>4, <2>5, <2>6
<1>12. CASE Runtime
  <2>1. UNCHANGED <<quota, readVars>>
    BY <1>12 DEF Runtime, StorePid, StoreUsed, StoreActive, StoreLimit, StoreFlag, Stores,
                 CreateFile, GrowFile, TruncateFile
  <2>2. mem' \in [Fields -> Values]
    <3>1. ASSUME NEW f, NEW x \in Values, Stores(f, x) PROVE mem' \in [Fields -> Values]
      BY <1>1, <3>1 DEF Stores
    <3>2. CASE \E i \in 1 .. Slots :
                 \/ \E p \in Pids : StorePid(i, p)
                 \/ \E u \in Usages : StoreUsed(i, u)
                 \/ \E a \in {0, 1} : StoreActive(i, a)
      <4>1. \E f, x : x \in Values /\ Stores(f, x)
        BY <3>2, ValuesHold DEF StorePid, StoreUsed, StoreActive
      <4> QED BY <3>1, <4>1
    <3>3. CASE StoreLimit \/ StoreFlag
      <4>1. \E f, x : x \in Values /\ Stores(f, x)
        BY <3>3, ValuesHold DEF StoreLimit, StoreFlag
      <4> QED BY <3>1, <4>1
    <3>4. CASE CreateFile \/ GrowFile \/ TruncateFile
      BY <1>1, <3>4, ValuesHold DEF CreateFile, GrowFile, TruncateFile
    <3> QED BY <1>12, <3>2, <3>3, <3>4 DEF Runtime
  <2>3. file' \in {"absent", "other", "short", "full"}
    BY <1>12 DEF Runtime, ShmemTypeOK, StorePid, StoreUsed, StoreActive, StoreLimit, StoreFlag, Stores,
                 CreateFile, GrowFile, TruncateFile
  <2>4. Memory'
    BY <2>2, <2>3 DEF Values
  <2> QED BY <1>2, <1>6, <2>1, <2>4
<1> QED BY <1>7, <1>8, <1>9, <1>10, <1>11, <1>12 DEF Next

(* File, copies and answers keep their types: what readMemory answers is   *)
(* never a verdict that only asks for another attempt.                     *)
THEOREM ShmemTypes == Spec => []ShmemTypeOK
<1> DEFINE Inv == IInv /\ HeadInv /\ ShmemTypeOK /\ quota \in Quotas
<1>1. Init => Inv
  BY InitHolds, HeadInit, ShmemTypesInit DEF Init
<1>2. Inv /\ [Next]_vars => Inv'
  <2>1. IInv' => Types'
    BY DEF IInv
  <2> QED BY <2>1, Inductive, HeadInductive, ShmemTypesStep
<1> HIDE DEF Inv
<1>3. Inv => ShmemTypeOK
  BY DEF Inv
<1> QED BY <1>1, <1>2, <1>3, PTL DEF Spec
=============================================================================
