------------------------------ MODULE ShmemRead ------------------------------
(***************************************************************************)
(* readMemory of the monitor: a file that the runtime library has mapped   *)
(* and stores to at any moment is copied twice, and the copies are         *)
(* compared to reject slots that changed hands in between.                 *)
(* Source: internal/monitor/shmem.go.                                      *)
(*                                                                         *)
(* Assumed of the kernel: a copy goes upwards through the file, and a      *)
(* field of four or eight bytes is copied and stored in one piece.  The    *)
(* runtime (hami-vnpu-core) is external: its stores to the slots come in   *)
(* any order; it stores the limit before it sets the initialized flag.     *)
(***************************************************************************)
EXTENDS Integers, FiniteSets

CONSTANTS
  Slots,      \* processCount
  Pids,       \* what a process field may hold, 0 among them
  SignBit,    \* of a process field: 2^31 in the code
  MaxUint,    \* the largest value of the eight byte fields
  Usages,     \* what the runtime may store as usage
  Quotas,     \* limits the runtime may have been given
  MaxStores,  \* bound: stores of the runtime
  Nil         \* no copy, no result

ASSUME ShmemAssumption ==
  /\ Slots \in Nat \ {0} /\ SignBit \in Nat \ {0, 1} /\ MaxUint \in Nat /\ MaxStores \in Nat
  /\ 0 \in Pids /\ Pids \subseteq 0 .. 2 * SignBit - 1
  /\ Usages \subseteq 0 .. MaxUint /\ Quotas \subseteq 0 .. MaxUint

VARIABLES
  file,     \* "absent", "other" (no regular file), "short" or "full"
  mem,      \* the fields of the file
  quota,    \* the limit the runtime was given
  stores,   \* its stores so far
  at,       \* field to be copied next, 0 outside the copying
  pass,     \* "data" or "verify"
  attempt,  \* 0 or 1
  data,     \* the two copies
  verify,
  result,   \* of the last readMemory
  holder,   \* for the properties: the pid of a slot when its usage was copied,
  left,     \* the pids that have left a slot since the attempt began,
  cut       \* and whether the file was truncated since then

fileVars == <<file, mem, quota, stores>>
readVars == <<at, pass, attempt, data, verify, result>>
seen == <<holder, left, cut>>
vars == <<fileVars, readVars, seen>>

(* The fields the reader looks at, by their place in the file: the limit   *)
(* at 0, then pid, usage and active of every slot, then the flag.          *)
LimitAt == 1
PidAt(i) == 3 * i - 1
UsedAt(i) == 3 * i
ActiveAt(i) == 3 * i + 1
FlagAt == 3 * Slots + 2

Fields == 1 .. FlagAt

Zeros == [f \in Fields |-> 0]

Errors == {"pending", "short", "refused", "truncated", "invalid", "zero", "overflow",
           "changed", "again"}

Failed(e) == [state |-> e, used |-> 0, limit |-> 0]

-----------------------------------------------------------------------------
(* decodeMemory *)

Signed(p) == IF p >= SignBit THEN p - 2 * SignBit ELSE p

SameSlotUnchecked(d, v, i) ==  \* mutant: the pid is not compared
  d[ActiveAt(i)] = v[ActiveAt(i)]

SameSlot(d, v, i) == d[PidAt(i)] = v[PidAt(i)] /\ d[ActiveAt(i)] = v[ActiveAt(i)]

Counted(d, i) == Signed(d[PidAt(i)]) > 0 /\ d[ActiveAt(i)] = 1

AddWrapping(sum, used) ==  \* mutant: the check is left out
  [state |-> "ok", used |-> (sum.used + used) % (MaxUint + 1), limit |-> sum.limit]

Add(sum, used) ==
  IF used > MaxUint - sum.used
  THEN Failed("overflow")
  ELSE [sum EXCEPT !.used = @ + used]

(* The loop over the slots leaves at the first slot that is wrong.         *)
SumOf(d, v) ==
  LET sum[i \in 0 .. Slots] ==
        IF i = 0 THEN [state |-> "ok", used |-> 0, limit |-> d[LimitAt]]
        ELSE CASE sum[i - 1].state # "ok" -> sum[i - 1]
               [] sum[i - 1].state = "ok" /\ ~ SameSlot(d, v, i) -> Failed("again")
               [] OTHER -> IF Counted(d, i) THEN Add(sum[i - 1], d[UsedAt(i)])
                           ELSE sum[i - 1]
  IN sum[Slots]

SameHeadFlagOnly(d, v) == d[FlagAt] = v[FlagAt]  \* mutant: the limit is not compared

SameHead(d, v) == d[FlagAt] = v[FlagAt] /\ d[LimitAt] = v[LimitAt]

decodeMemory(d, v) ==
  CASE d[FlagAt] = 0 -> Failed("pending")
    [] d[FlagAt] > 1 -> Failed("invalid")
    [] d[FlagAt] = 1 /\ ~ SameHead(d, v) -> Failed("again")
    [] d[FlagAt] = 1 /\ SameHead(d, v) /\ d[LimitAt] = 0 -> Failed("zero")
    [] OTHER -> SumOf(d, v)

-----------------------------------------------------------------------------
(* readMemory: open, stat, and two attempts of two copies each.            *)

Idle == at = 0

Watch == holder' = [i \in 1 .. Slots |-> Nil] /\ left' = {} /\ cut' = FALSE

Return(r) ==
  /\ result' = r
  /\ at' = 0 /\ data' = Zeros /\ verify' = Zeros /\ attempt' = 0 /\ pass' = "data"

Refuse ==
  /\ Idle
  /\ \/ file = "absent" /\ Return(Failed("pending"))
     \/ file = "other" /\ Return(Failed("refused"))
     \/ file = "short" /\ Return(Failed("short"))
  /\ Watch /\ UNCHANGED fileVars

Open ==
  /\ Idle /\ file = "full"
  /\ at' = 1 /\ pass' = "data" /\ attempt' = 0 /\ result' = Nil
  /\ Watch /\ UNCHANGED <<fileVars, data, verify>>

CopyField ==
  /\ ~ Idle /\ at \in Fields /\ file = "full"
  /\ IF pass = "data"
     THEN data' = [data EXCEPT ![at] = mem[at]] /\ UNCHANGED verify
     ELSE verify' = [verify EXCEPT ![at] = mem[at]] /\ UNCHANGED data
  /\ holder' = [i \in 1 .. Slots |->
                  IF pass = "data" /\ at = UsedAt(i) THEN mem[PidAt(i)] ELSE holder[i]]
  /\ at' = at + 1
  /\ UNCHANGED <<fileVars, pass, attempt, result, left, cut>>

(* ReadAt meets the end of the file.                                       *)
CopyTruncated ==
  /\ ~ Idle /\ at \in Fields /\ file # "full"
  /\ Return(Failed("truncated"))
  /\ Watch /\ UNCHANGED fileVars

CopyAgain ==
  /\ at = FlagAt + 1 /\ pass = "data"
  /\ at' = 1 /\ pass' = "verify"
  /\ UNCHANGED <<fileVars, attempt, data, verify, result, seen>>

DecodeOnce ==  \* mutant: the first attempt hands on what it got
  /\ at = FlagAt + 1 /\ pass = "verify"
  /\ Return(decodeMemory(data, verify)) /\ Watch
  /\ UNCHANGED fileVars

Decode ==
  /\ at = FlagAt + 1 /\ pass = "verify"
  /\ LET r == decodeMemory(data, verify) IN
       \/ r.state # "again" /\ Return(r)
       \/ r.state = "again" /\ attempt = 1 /\ Return(Failed("changed"))
       \/ /\ r.state = "again" /\ attempt = 0 /\ UNCHANGED result
          /\ at' = 1 /\ pass' = "data" /\ attempt' = 1 /\ data' = Zeros /\ verify' = Zeros
  /\ Watch /\ UNCHANGED fileVars

-----------------------------------------------------------------------------
(* The runtime.                                                            *)

Stores(f, value) ==
  /\ file = "full" /\ stores < MaxStores /\ mem[f] # value
  /\ mem' = [mem EXCEPT ![f] = value] /\ stores' = stores + 1
  /\ UNCHANGED <<file, quota, readVars, holder, cut>>

(* Assumed: a process has one slot, and one that has left a slot does not  *)
(* come back to it, with the same pid, within one attempt to read it.      *)
StorePid(i, p) ==
  /\ p # 0 => <<i, p>> \notin left /\ \A j \in 1 .. Slots : mem[PidAt(j)] # p
  /\ Stores(PidAt(i), p)
  /\ left' = IF Idle THEN left ELSE left \cup {<<i, mem[PidAt(i)]>>}

StoreUsed(i, u) == Stores(UsedAt(i), u) /\ UNCHANGED left

StoreActive(i, a) == Stores(ActiveAt(i), a) /\ UNCHANGED left

StoreLimit == mem[FlagAt] = 0 /\ Stores(LimitAt, quota) /\ UNCHANGED left

StoreFlag == mem[FlagAt] = 0 /\ mem[LimitAt] = quota /\ Stores(FlagAt, 1) /\ UNCHANGED left

CreateFile ==
  /\ file = "absent" /\ file' = "short"
  /\ UNCHANGED <<mem, quota, stores, readVars, seen>>

GrowFile ==
  /\ file = "short" /\ file' = "full"
  /\ UNCHANGED <<mem, quota, stores, readVars, seen>>

TruncateFile ==
  /\ file = "full" /\ stores < MaxStores
  /\ file' = "short" /\ mem' = Zeros /\ stores' = stores + 1
  /\ cut' = ~ Idle
  /\ left' = IF Idle THEN left ELSE left \cup {<<i, mem[PidAt(i)]>> : i \in 1 .. Slots}
  /\ UNCHANGED <<quota, readVars, holder>>

Runtime ==
  \/ \E i \in 1 .. Slots :
       \/ \E p \in Pids : StorePid(i, p)
       \/ \E u \in Usages : StoreUsed(i, u)
       \/ \E a \in {0, 1} : StoreActive(i, a)
  \/ StoreLimit \/ StoreFlag
  \/ CreateFile \/ GrowFile \/ TruncateFile

(* A file that is not there yet, one of another kind, one with a flag of   *)
(* another layout, and a runtime that is at work.                          *)
Init ==
  /\ quota \in Quotas
  /\ \/ file \in {"absent", "other"} /\ mem = Zeros
     \/ file = "full" /\ mem = [Zeros EXCEPT ![FlagAt] = 2]
     \/ /\ file = "full"
        /\ \E p, q \in Pids, u, w \in Usages :
             /\ p # q /\ Slots >= 2
             /\ mem = [Zeros EXCEPT ![FlagAt] = 1, ![LimitAt] = quota,
                         ![PidAt(1)] = p, ![UsedAt(1)] = u, ![ActiveAt(1)] = 1,
                         ![PidAt(2)] = q, ![UsedAt(2)] = w, ![ActiveAt(2)] = 1]
  /\ stores = 0
  /\ at = 0 /\ pass = "data" /\ attempt = 0 /\ data = Zeros /\ verify = Zeros
  /\ result = Nil
  /\ holder = [i \in 1 .. Slots |-> Nil] /\ left = {} /\ cut = FALSE

Next == Refuse \/ Open \/ CopyField \/ CopyTruncated \/ CopyAgain \/ Decode \/ Runtime

Spec == Init /\ [][Next]_vars

-----------------------------------------------------------------------------
(* Properties *)

(* The types of the file, of the two copies and of the result.             *)
ShmemTypeOK ==
  /\ file \in {"absent", "other", "short", "full"}
  /\ {mem, data, verify} \subseteq [Fields -> (0 .. 2 * SignBit - 1) \cup (0 .. MaxUint)]
  /\ at \in 0 .. FlagAt + 1 /\ pass \in {"data", "verify"} /\ attempt \in {0, 1}
  /\ result = Nil \/ /\ result.state \in (Errors \ {"again"}) \cup {"ok"}
                     /\ result.used \in 0 .. MaxUint /\ result.limit \in 0 .. MaxUint

(* "recheck identities to reject observed concurrent slot reuse": a usage  *)
(* that passes the comparison and is counted was copied while the process  *)
(* it is counted for held the slot, however often slots change hands       *)
(* during the two copies.                                                  *)
UsageOfHolder ==
  at = FlagAt + 1 /\ pass = "verify" =>
    \A i \in 1 .. Slots :
      SameSlot(data, verify, i) /\ Counted(data, i) => holder[i] = data[PidAt(i)]

(* A runtime that is setting up its file, quota before flag, is not taken  *)
(* for one without a quota, although the quota is copied first and the     *)
(* flag last; and a limit that passes the comparison is the quota.         *)
LimitIsQuota ==
  at = FlagAt + 1 /\ pass = "verify" /\ data[FlagAt] = 1 /\ SameHead(data, verify) =>
    data[LimitAt] = quota \/ (cut /\ data[LimitAt] = 0)

(* The usage answered is the sum over the slots counted as an integer; it  *)
(* is an error, not a remainder, when it does not fit its width.           *)
SumIsExact ==
  LET total[i \in 0 .. Slots] ==
        IF i = 0 THEN 0
        ELSE total[i - 1] + IF Counted(data, i) THEN data[UsedAt(i)] ELSE 0
      r == decodeMemory(data, verify)
  IN at = FlagAt + 1 /\ pass = "verify" =>
       /\ r.state = "ok" => r.used = total[Slots]
       /\ r.state = "overflow" => total[Slots] > MaxUint
=============================================================================
