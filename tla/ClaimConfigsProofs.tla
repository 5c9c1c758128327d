-------------------------- MODULE ClaimConfigsProofs --------------------------
(***************************************************************************)
(* What prepareDevices promises for claims, devices and configurations of  *)
(* any number.  IInv says how far the groups have come in each step: which *)
(* configurations are in order, which groups are applied, with edits that  *)
(* no other group replaces when no device comes twice, and which are       *)
(* collected.  The configurations in their order are those of the claim in *)
(* ascending precedence (Ascending), so the last that applies is the       *)
(* claim's for a device.  In core mode one device of a group has the edits *)
(* of all, so what the monitor finds are those of the groups (EnvIs).      *)
(***************************************************************************)
EXTENDS ClaimConfigs, FiniteSetTheorems, TLAPS

LEMMA Greatest ==
  ASSUME NEW n \in Nat, NEW I \in SUBSET (1 .. n), I # {}
  PROVE  Max(I) \in I /\ \A i \in I : i <= Max(I)
<1> DEFINE R == OpToRel(<, Nat)
           Bounds == {m \in Nat : \A i \in I : i <= m}
<1>1. IsWellFoundedOn(R, Nat)
  BY NatLessThanWellFounded
<1>2. \A x, y \in Nat : x < y => <<x, y>> \in R
  BY DEF OpToRel
<1> HIDE DEF R
<1>3. n \in Bounds /\ Bounds \subseteq Nat
  OBVIOUS
<1>4. PICK x \in Bounds : \A y \in Bounds : ~ (<<y, x>> \in R)
  BY <1>1, <1>3, WFMin
<1>5. x \in I
  <2> SUFFICES ASSUME x \notin I PROVE FALSE
    OBVIOUS
  <2>1. x \in Nat /\ x # 0
    <3>1. PICK i \in I : i \in 1 .. n /\ i <= x
      BY <1>4
    <3> QED BY <1>4, <3>1
  <2>2. x - 1 \in Bounds
    <3>1. \A i \in I : i \in Nat /\ i <= x /\ i # x
      BY <1>4
    <3> QED BY <2>1, <3>1
  <2>3. x - 1 \in Nat /\ x - 1 < x
    BY <2>1
  <2> QED BY <1>2, <1>4, <2>1, <2>2, <2>3
<1>6. \E z \in I : \A y \in I : z >= y
  BY <1>5
<1>7. Max(I) \in I /\ \A y \in I : Max(I) >= y
  BY <1>6 DEF Max
<1> QED BY <1>7

LEMMA Least ==
  ASSUME NEW I \in SUBSET Nat, I # {}
  PROVE  Min(I) \in I
<1> DEFINE R == OpToRel(<, Nat)
<1>1. IsWellFoundedOn(R, Nat)
  BY NatLessThanWellFounded
<1>2. \A x, y \in Nat : x < y => <<x, y>> \in R
  BY DEF OpToRel
<1> HIDE DEF R
<1>3. PICK x \in I : \A y \in I : ~ (<<y, x>> \in R)
  BY <1>1, WFMin
<1>4. \A y \in I : x \in Nat /\ y \in Nat /\ ~ (y < x)
  BY <1>2, <1>3
<1>5. \E z \in I : \A y \in I : z =< y
  BY <1>4
<1> QED BY <1>5 DEF Min

LEMMA NatInductive ==
  ASSUME NEW S, 0 \in S, \A n \in Nat : n \in S => n + 1 \in S
  PROVE  Nat \subseteq S
<1> DEFINE T == Nat \ S
           R == OpToRel(<, Nat)
<1>1. IsWellFoundedOn(R, Nat)
  BY NatLessThanWellFounded
<1>2. \A x, y \in Nat : x < y => <<x, y>> \in R
  BY DEF OpToRel
<1> HIDE DEF R
<1>3. SUFFICES ASSUME T # {} PROVE FALSE
  OBVIOUS
<1>4. PICK x \in T : \A y \in T : ~ (<<y, x>> \in R)
  BY <1>1, <1>3, WFMin
<1>5. x # 0 /\ x - 1 \in Nat /\ x - 1 < x
  BY <1>4
<1>6. x - 1 \in S
  BY <1>2, <1>4, <1>5
<1> QED BY <1>4, <1>5, <1>6

Enumerates(q, I) ==
  /\ q \in [1 .. Cardinality(I) -> I]
  /\ \A j, k \in 1 .. Cardinality(I) : j < k => q[j] < q[k]

LEMMA Enumerable ==
  ASSUME NEW n \in Nat, NEW I \in SUBSET (1 .. n)
  PROVE  IsFiniteSet(I) /\ Cardinality(I) \in Nat /\ \E q : Enumerates(q, I)
<1> DEFINE Good == {m \in Nat : \A J \in SUBSET (1 .. m) : \E q : Enumerates(q, J)}
<1>1. \A m \in Nat : \A J \in SUBSET (1 .. m) : IsFiniteSet(J) /\ Cardinality(J) \in Nat
  <2> SUFFICES ASSUME NEW m \in Nat, NEW J \in SUBSET (1 .. m)
               PROVE  IsFiniteSet(J) /\ Cardinality(J) \in Nat
    OBVIOUS
  <2>1. IsFiniteSet(1 .. m)
    BY FS_Interval
  <2>2. IsFiniteSet(J)
    BY <2>1, FS_Subset
  <2> QED BY <2>2, FS_CardinalityType
<1>2. 0 \in Good
  <2>1. Cardinality({}) = 0 /\ 1 .. 0 = {}
    BY FS_EmptySet
  <2>2. [k \in {} |-> k] \in [{} -> {}]
    OBVIOUS
  <2>3. Enumerates([k \in {} |-> k], {})
    BY <2>1, <2>2 DEF Enumerates
  <2>4. \A J \in SUBSET (1 .. 0) : J = {}
    BY <2>1
  <2> QED BY <2>3, <2>4
<1>3. ASSUME NEW m \in Nat, m \in Good PROVE m + 1 \in Good
  <2> SUFFICES ASSUME NEW J \in SUBSET (1 .. m + 1) PROVE \E q : Enumerates(q, J)
    OBVIOUS
  <2>1. CASE m + 1 \notin J
    <3>1. J \in SUBSET (1 .. m)
      BY <2>1
    <3> QED BY <1>3, <3>1
  <2>2. CASE m + 1 \in J
    <3> DEFINE K == J \ {m + 1}
               c == Cardinality(K)
    <3>1. K \in SUBSET (1 .. m)
      OBVIOUS
    <3>2. c \in Nat /\ Cardinality(J) = c + 1
      <4>1. IsFiniteSet(K) /\ c \in Nat
        BY <1>1, <3>1
      <4>2. J = K \cup {m + 1} /\ m + 1 \notin K
        BY <2>2
      <4> HIDE DEF K
      <4> QED BY <4>1, <4>2, FS_AddElement
    <3>3. PICK q : Enumerates(q, K)
      BY <1>3, <3>1
    <3> DEFINE r == [k \in 1 .. c + 1 |-> IF k = c + 1 THEN m + 1 ELSE q[k]]
    <3>4. q \in [1 .. c -> K] /\ \A j, k \in 1 .. c : j < k => q[j] < q[k]
      BY <3>3 DEF Enumerates
    <3> HIDE DEF c
    <3>5. r \in [1 .. c + 1 -> J]
      BY <2>2, <3>2, <3>4
    <3>6. ASSUME NEW j \in 1 .. c + 1, NEW k \in 1 .. c + 1, j < k PROVE r[j] < r[k]
      <4>1. CASE k = c + 1
        <5>1. j \in 1 .. c /\ q[j] \in 1 .. m
          <6>1. j \in 1 .. c
            BY <3>2, <3>6, <4>1
          <6>2. q[j] \in K
            BY <3>4, <6>1
          <6> QED BY <3>1, <6>1, <6>2
        <5> QED BY <5>1, <4>1, <3>2
      <4>2. CASE k # c + 1
        BY <3>2, <3>4, <3>6, <4>2
      <4> QED BY <4>1, <4>2
    <3> HIDE DEF r
    <3> QED BY <3>2, <3>5, <3>6 DEF Enumerates
  <2> QED BY <2>1, <2>2
<1> HIDE DEF Good
<1>4. n \in Good
  BY <1>2, <1>3, NatInductive
<1> QED BY <1>1, <1>4 DEF Good

LEMMA InOrderEnumerates ==
  ASSUME NEW n \in Nat, NEW I \in SUBSET (1 .. n)
  PROVE  /\ IsFiniteSet(I) /\ Cardinality(I) \in Nat
         /\ InOrder(I) \in [1 .. Cardinality(I) -> I]
         /\ \A j, k \in 1 .. Cardinality(I) : j < k => InOrder(I)[j] < InOrder(I)[k]
         /\ \A i \in I : \E k \in 1 .. Cardinality(I) : InOrder(I)[k] = i
<1> DEFINE c == Cardinality(I)
           q == InOrder(I)
<1>1. IsFiniteSet(I) /\ c \in Nat /\ \E x : Enumerates(x, I)
  BY Enumerable
<1>2. \E x \in [1 .. c -> I] : \A j, k \in 1 .. c : j < k => x[j] < x[k]
  BY <1>1 DEF Enumerates
<1>3. q \in [1 .. c -> I] /\ \A j, k \in 1 .. c : j < k => q[j] < q[k]
  BY <1>2 DEF InOrder
<1> HIDE DEF q
<1>4. \A j, k \in 1 .. c : j # k => q[j] # q[k]
  <2> SUFFICES ASSUME NEW j \in 1 .. c, NEW k \in 1 .. c, j # k PROVE q[j] # q[k]
    OBVIOUS
  <2>1. j < k \/ k < j
    BY <1>1
  <2>2. q[j] \in 1 .. n /\ q[k] \in 1 .. n
    BY <1>3
  <2> QED BY <1>3, <2>1, <2>2
<1>5. q \in Injection(1 .. c, I)
  BY <1>3, <1>4 DEF Injection, IsInjective
<1>6. Cardinality(1 .. c) = c
  BY <1>1, FS_Interval
<1>7. q \in Surjection(1 .. c, I)
  BY <1>1, <1>5, <1>6, FS_Injection
<1>8. \A i \in I : \E k \in 1 .. c : q[k] = i
  BY <1>7 DEF Surjection
<1> QED BY <1>1, <1>3, <1>8 DEF q

-----------------------------------------------------------------------------
(* The claim, which the steps do not change.                               *)
Given ==
  /\ core \in BOOLEAN
  /\ \E n \in Nat : possible \in [1 .. n -> AllocationConfig]
  /\ \E n \in Nat \ {0} : results \in [1 .. n -> Result]
  /\ Allocated(results)

Decoded ==
  <<[requests |-> {}, npu |-> DefaultNpuConfig]>> \o
  [k \in DOMAIN GetOpaqueDeviceConfigs |->
     [requests |-> GetOpaqueDeviceConfigs[k].requests, npu |-> GetOpaqueDeviceConfigs[k].npu]]

(* Behind the default, the configurations of this driver in ascending      *)
(* precedence; from tells where in the claim each comes from.              *)
Ascending(cs, m, from) ==
  /\ m \in Nat \ {0} /\ from \in [2 .. m -> DOMAIN possible]
  /\ DOMAIN cs = 1 .. m /\ Len(cs) = m
  /\ cs[1] = [requests |-> {}, npu |-> DefaultNpuConfig]
  /\ \A k \in 2 .. m :
       /\ possible[from[k]].kind = "npu"
       /\ cs[k] = [requests |-> possible[from[k]].requests, npu |-> possible[from[k]].npu]
  /\ \A j, k \in 2 .. m : j < k => Beats(from[k], from[j])
  /\ \A p \in DOMAIN possible : possible[p].kind = "npu" => \E k \in 2 .. m : from[k] = p

From(source) == {i \in DOMAIN possible : possible[i].kind = "npu" /\ possible[i].source = source}

(* q lists the indices of a source in their order.                         *)
Lists(q, c, source) ==
  /\ q \in [1 .. c -> From(source)]
  /\ \A j, k \in 1 .. c : j < k => q[j] < q[k]
  /\ \A i \in From(source) : \E k \in 1 .. c : q[k] = i
  /\ Mine(source) = [k \in 1 .. c |-> possible[q[k]]]

LEMMA MineIs ==
  ASSUME Given, NEW source
  PROVE  \E c \in Nat : \E q : Lists(q, c, source)
<1> DEFINE I == From(source)
           q == InOrder(I)
           c == Cardinality(I)
<1>1. PICK n \in Nat : possible \in [1 .. n -> AllocationConfig]
  BY DEF Given
<1>2. I \in SUBSET (1 .. n)
  BY <1>1 DEF From
<1>3. /\ c \in Nat /\ q \in [1 .. c -> I]
      /\ \A j, k \in 1 .. c : j < k => q[j] < q[k]
      /\ \A i \in I : \E k \in 1 .. c : q[k] = i
  <2> HIDE DEF I
  <2> QED BY <1>2, InOrderEnumerates
<1>4. Mine(source) = [k \in DOMAIN q |-> possible[q[k]]]
  BY DEF Mine, From
<1>5. Mine(source) = [k \in 1 .. c |-> possible[q[k]]]
  <2>1. DOMAIN q = 1 .. c
    BY <1>3
  <2> HIDE DEF q, c
  <2> QED BY <1>4, <2>1
<1> HIDE DEF q, c
<1>6. Lists(q, c, source)
  BY <1>3, <1>5 DEF Lists
<1> QED BY <1>3, <1>6

LEMMA DecodedAscends ==
  ASSUME Given
  PROVE  \E m, from : Ascending(Decoded, m, from)
<1>1. PICK n \in Nat : possible \in [1 .. n -> AllocationConfig]
  BY DEF Given
<1>A. PICK ca \in Nat : \E q : Lists(q, ca, "class")
  BY MineIs
<1>C. PICK a : Lists(a, ca, "class")
  BY <1>A
<1>2. /\ a \in [1 .. ca -> From("class")]
      /\ \A j, k \in 1 .. ca : j < k => a[j] < a[k]
      /\ \A i \in From("class") : \E k \in 1 .. ca : a[k] = i
      /\ Mine("class") = [k \in 1 .. ca |-> possible[a[k]]]
  BY <1>C DEF Lists
<1>B. PICK cb \in Nat : \E q : Lists(q, cb, "claim")
  BY MineIs
<1>D. PICK b : Lists(b, cb, "claim")
  BY <1>B
<1>3. /\ b \in [1 .. cb -> From("claim")]
      /\ \A j, k \in 1 .. cb : j < k => b[j] < b[k]
      /\ \A i \in From("claim") : \E k \in 1 .. cb : b[k] = i
      /\ Mine("claim") = [k \in 1 .. cb |-> possible[b[k]]]
  BY <1>D DEF Lists
<1> DEFINE m == 1 + ca + cb
           G == GetOpaqueDeviceConfigs
           from == [k \in 2 .. m |-> IF k <= 1 + ca THEN a[k - 1] ELSE b[k - 1 - ca]]
<1>4. /\ \A i \in From("class") : i \in DOMAIN possible /\ i \in 1 .. n /\ possible[i].kind = "npu"
                                   /\ possible[i].source = "class"
      /\ \A i \in From("claim") : i \in DOMAIN possible /\ i \in 1 .. n /\ possible[i].kind = "npu"
                                   /\ possible[i].source = "claim"
  BY <1>1 DEF From
<1>5. \A k \in 2 .. m : /\ k <= 1 + ca => k - 1 \in 1 .. ca /\ from[k] = a[k - 1]
                        /\ k > 1 + ca => k - 1 - ca \in 1 .. cb /\ from[k] = b[k - 1 - ca]
  OBVIOUS
<1>6. from \in [2 .. m -> DOMAIN possible]
  BY <1>2, <1>3, <1>4, <1>5
<1>7. /\ Len(G) = ca + cb /\ DOMAIN G = 1 .. ca + cb
      /\ \A k \in 1 .. ca + cb : G[k] = IF k <= ca THEN possible[a[k]] ELSE possible[b[k - ca]]
  <2> DEFINE S == {possible[i] : i \in DOMAIN possible}
             x == [k \in 1 .. ca |-> possible[a[k]]]
             y == [k \in 1 .. cb |-> possible[b[k]]]
  <2>1. x \in Seq(S) /\ Len(x) = ca /\ y \in Seq(S) /\ Len(y) = cb
    <3>1. x \in [1 .. ca -> S] /\ y \in [1 .. cb -> S]
      BY <1>2, <1>3, <1>4
    <3> QED BY <3>1
  <2>2. G = x \o y
    BY <1>2, <1>3 DEF GetOpaqueDeviceConfigs
  <2>3. \A k \in 1 .. ca : x[k] = possible[a[k]]
    OBVIOUS
  <2>4. \A k \in 1 .. cb : y[k] = possible[b[k]]
    OBVIOUS
  <2> HIDE DEF x, y, G
  <2>5. Len(G) = ca + cb /\ DOMAIN G = 1 .. ca + cb
    BY <2>1, <2>2
  <2>6. \A k \in 1 .. ca + cb : G[k] = IF k <= ca THEN x[k] ELSE y[k - ca]
    BY <2>1, <2>2
  <2> QED BY <2>3, <2>4, <2>5, <2>6
<1> HIDE DEF G
<1> DEFINE d == [requests |-> {}, npu |-> DefaultNpuConfig]
           H == [k \in DOMAIN G |-> [requests |-> G[k].requests, npu |-> G[k].npu]]
<1>8. /\ Len(Decoded) = m /\ DOMAIN Decoded = 1 .. m
      /\ Decoded[1] = d
      /\ \A k \in 2 .. m : Decoded[k] = [requests |-> G[k - 1].requests, npu |-> G[k - 1].npu]
  <2> DEFINE R == {H[k] : k \in DOMAIN H}
  <2>1. H \in Seq(R) /\ Len(H) = ca + cb
    <3>1. H \in [1 .. ca + cb -> R]
      BY <1>7
    <3> QED BY <3>1
  <2>2. \A k \in 1 .. ca + cb : H[k] = [requests |-> G[k].requests, npu |-> G[k].npu]
    BY <1>7
  <2>3. Decoded = <<d>> \o H
    BY DEF Decoded, G
  <2> HIDE DEF H, d
  <2>4. <<d>> \in Seq({d}) /\ Len(<<d>>) = 1 /\ <<d>>[1] = d
    OBVIOUS
  <2>5. Len(Decoded) = m /\ DOMAIN Decoded = 1 .. m
    BY <2>1, <2>3, <2>4
  <2>6. Decoded[1] = d /\ \A k \in 2 .. m : Decoded[k] = H[k - 1]
    BY <2>1, <2>3, <2>4
  <2> QED BY <2>2, <2>5, <2>6
<1>9. \A k \in 2 .. m : G[k - 1] = possible[from[k]]
  BY <1>5, <1>7
<1>10. \A k \in 2 .. m : possible[from[k]].kind = "npu"
  BY <1>2, <1>3, <1>4, <1>5
<1> HIDE DEF from
<1>11. ASSUME NEW j \in 2 .. m, NEW k \in 2 .. m, j < k PROVE Beats(from[k], from[j])
  <2>1. CASE k <= 1 + ca
    <3>1. from[k] = a[k - 1] /\ from[j] = a[j - 1] /\ k - 1 \in 1 .. ca /\ j - 1 \in 1 .. ca
      BY <1>5, <1>11, <2>1
    <3>2. a[j - 1] < a[k - 1] /\ a[k - 1] \in From("class") /\ a[j - 1] \in From("class")
      BY <1>2, <1>11, <3>1
    <3> QED BY <1>4, <3>1, <3>2 DEF Beats
  <2>2. CASE k > 1 + ca /\ j <= 1 + ca
    <3>1. from[k] \in From("claim") /\ from[j] \in From("class")
      BY <1>2, <1>3, <1>5, <2>2
    <3> QED BY <1>4, <3>1 DEF Beats
  <2>3. CASE j > 1 + ca
    <3>1. /\ from[k] = b[k - 1 - ca] /\ from[j] = b[j - 1 - ca]
          /\ k - 1 - ca \in 1 .. cb /\ j - 1 - ca \in 1 .. cb
      BY <1>5, <1>11, <2>3
    <3>2. b[j - 1 - ca] < b[k - 1 - ca] /\ {b[k - 1 - ca], b[j - 1 - ca]} \subseteq From("claim")
      BY <1>3, <1>11, <3>1
    <3> QED BY <1>4, <3>1, <3>2 DEF Beats
  <2> QED BY <1>11, <2>1, <2>2, <2>3
<1>12. ASSUME NEW p \in DOMAIN possible, possible[p].kind = "npu" PROVE \E k \in 2 .. m : from[k] = p
  <2>1. possible[p].source \in {"class", "claim"}
    BY <1>1 DEF AllocationConfig
  <2>2. CASE possible[p].source = "class"
    <3>1. PICK k \in 1 .. ca : a[k] = p
      BY <1>2, <1>12, <2>2 DEF From
    <3>2. k + 1 \in 2 .. m /\ k + 1 <= 1 + ca /\ (k + 1) - 1 = k
      OBVIOUS
    <3> QED BY <1>5, <3>1, <3>2
  <2>3. CASE possible[p].source = "claim"
    <3>1. PICK k \in 1 .. cb : b[k] = p
      BY <1>3, <1>12, <2>3 DEF From
    <3>2. k + 1 + ca \in 2 .. m /\ k + 1 + ca > 1 + ca /\ (k + 1 + ca) - 1 - ca = k
      OBVIOUS
    <3> QED BY <1>5, <3>1, <3>2
  <2> QED BY <2>1, <2>2, <2>3
<1>13. \A k \in 2 .. m :
         Decoded[k] = [requests |-> possible[from[k]].requests, npu |-> possible[from[k]].npu]
  BY <1>8, <1>9
<1>14. m \in Nat \ {0}
  OBVIOUS
<1> HIDE DEF m
<1> QED BY <1>6, <1>8, <1>10, <1>11, <1>12, <1>13, <1>14 DEF Ascending

(* The group of a device is the configuration with precedence.             *)
LEMMA PickedRight ==
  ASSUME Given, configs = Decoded, NEW i \in DOMAIN results
  PROVE  Group(i) \in DOMAIN configs /\ configs[Group(i)].npu = ConfigOf(i)
<1>1. PICK m, from : Ascending(configs, m, from)
  BY DecodedAscends
<1> DEFINE I == {k \in 1 .. m : ForRequest(configs[k], results[i])}
           g == Group(i)
<1>2. I \in SUBSET (1 .. m) /\ 1 \in I /\ m \in Nat
  BY <1>1 DEF Ascending, ForRequest
<1>3. g = Max(I)
  BY <1>1, <1>2 DEF Ascending, Group, SelectLastInSeq
<1>4. g \in I /\ \A k \in I : k <= g
  <2> HIDE DEF I, g
  <2> QED BY <1>2, <1>3, Greatest
<1> HIDE DEF g
<1>5. ASSUME NEW p, p \in DOMAIN possible, Applies(p, i)
      PROVE  \E k \in 2 .. m : k \in I /\ from[k] = p
  <2>1. PICK k \in 2 .. m : from[k] = p
    BY <1>1, <1>5 DEF Ascending, Applies
  <2>2. configs[k].requests = possible[p].requests
    <3>1. configs[k] = [requests |-> possible[from[k]].requests, npu |-> possible[from[k]].npu]
      BY <1>1 DEF Ascending
    <3> QED BY <2>1, <3>1
  <2>3. k \in 1 .. m
    BY <1>2
  <2> QED BY <1>5, <2>1, <2>2, <2>3 DEF Applies, ForRequest
<1>6. CASE g = 1
  <2>1. \A k \in 2 .. m : k \notin I
    BY <1>2, <1>4, <1>6
  <2>2. Winner(i) = {}
    BY <1>5, <2>1 DEF Winner
  <2> QED BY <1>1, <1>4, <1>6, <2>2 DEF Ascending, ConfigOf, g
<1>7. CASE g # 1
  <2>1. g \in 2 .. m
    BY <1>2, <1>4, <1>7
  <2> DEFINE w == from[g]
  <2>2. w \in DOMAIN possible /\ Applies(w, i) /\ configs[g].npu = possible[w].npu
    <3>1. w \in DOMAIN possible /\ possible[w].kind = "npu"
      BY <1>1, <2>1 DEF Ascending
    <3>2. configs[g].requests = possible[w].requests /\ configs[g].npu = possible[w].npu
      <4>1. configs[g] = [requests |-> possible[from[g]].requests, npu |-> possible[from[g]].npu]
        BY <1>1, <2>1 DEF Ascending
      <4> QED BY <4>1
    <3> QED BY <1>4, <3>1, <3>2 DEF Applies, ForRequest
  <2>3. ASSUME NEW p \in DOMAIN possible, Applies(p, i), p # w PROVE Beats(w, p)
    <3>1. PICK k \in 2 .. m : k \in I /\ from[k] = p
      BY <1>5, <2>3
    <3>2. k < g
      BY <1>2, <1>4, <2>1, <2>3, <3>1
    <3> QED BY <1>1, <2>1, <3>1, <3>2 DEF Ascending
  <2>4. w \in Winner(i)
    BY <2>2, <2>3 DEF Winner
  <2>5. ASSUME NEW p \in Winner(i) PROVE p = w
    <3> SUFFICES ASSUME p # w PROVE FALSE
      OBVIOUS
    <3>1. Beats(w, p) /\ Beats(p, w) /\ p \in DOMAIN possible
      BY <2>2, <2>3 DEF Winner
    <3>2. p \in Nat /\ w \in Nat
      BY <2>2, <3>1 DEF Given
    <3> QED BY <3>1, <3>2 DEF Beats
  <2>6. (CHOOSE k \in Winner(i) : TRUE) = w
    BY <2>4, <2>5
  <2>7. ConfigOf(i) = possible[w].npu
    BY <2>4, <2>6 DEF ConfigOf
  <2>8. g \in DOMAIN configs
    BY <1>1, <1>4 DEF Ascending
  <2> QED BY <2>2, <2>7, <2>8 DEF g
<1> QED BY <1>6, <1>7

-----------------------------------------------------------------------------
(* The groups *)

Of(g) == {i \in DOMAIN results : Group(i) = g}

(* q lists the devices of a group.                                         *)
ListsGroup(q, c, g) ==
  /\ q \in [1 .. c -> Of(g)]
  /\ \A j, k \in 1 .. c : j # k => q[j] # q[k]
  /\ \A i \in Of(g) : \E k \in 1 .. c : q[k] = i
  /\ Devs(g) = [k \in 1 .. c |-> results[q[k]]]

LEMMA GroupIsListed ==
  ASSUME Given, NEW g \in Groups
  PROVE  \E c \in Nat \ {0} : \E q : ListsGroup(q, c, g)
<1> DEFINE I == Of(g)
           q == InOrder(I)
           c == Cardinality(I)
<1>1. PICK n \in Nat : results \in [1 .. n -> Result]
  BY DEF Given
<1>2. I \in SUBSET (1 .. n) /\ I # {}
  BY <1>1 DEF Of, Groups
<1>3. /\ c \in Nat /\ q \in [1 .. c -> I]
      /\ \A j, k \in 1 .. c : j < k => q[j] < q[k]
      /\ \A i \in I : \E k \in 1 .. c : q[k] = i
  <2> HIDE DEF I
  <2> QED BY <1>2, InOrderEnumerates
<1>4. Devs(g) = [k \in DOMAIN q |-> results[q[k]]]
  BY DEF Devs, Members, Of
<1> HIDE DEF q, c, I
<1>5. DOMAIN q = 1 .. c
  BY <1>3
<1>6. c # 0
  <2>1. PICK i : i \in I
    BY <1>2
  <2>2. PICK k \in 1 .. c : q[k] = i
    BY <1>3, <2>1
  <2> QED BY <2>2
<1>7. \A j, k \in 1 .. c : j # k => q[j] # q[k]
  <2> SUFFICES ASSUME NEW j \in 1 .. c, NEW k \in 1 .. c, j # k PROVE q[j] # q[k]
    OBVIOUS
  <2>1. j < k \/ k < j
    BY <1>3
  <2>2. q[j] \in 1 .. n /\ q[k] \in 1 .. n
    <3>1. q[j] \in I /\ q[k] \in I
      BY <1>3
    <3> QED BY <1>2, <3>1
  <2> QED BY <1>3, <2>1, <2>2
<1>8. ListsGroup(q, c, g)
  BY <1>3, <1>4, <1>5, <1>7 DEF ListsGroup, I
<1> QED BY <1>3, <1>6, <1>8

(* What Apply gives the devices of a group.                                *)
NewEdits(g) ==
  IF core THEN CoreEdits(Devs(g)) ELSE SliceEdits(Devs(g), Normalize(configs[g].npu))

AllEdits(g) ==
  [visible |-> [k \in DOMAIN Devs(g) |-> Devs(g)[k].device], sharing |-> Nil,
   quota |-> [memory |-> CapacityOf(Devs(g)[1]).memory \div MiB,
              cores |-> CapacityOf(Devs(g)[1]).cores]]

TypedEdits(e) ==
  /\ e.visible \in Seq(Devices)
  /\ e.quota \in Quota \cup {Nil}
  /\ \/ e.sharing = Nil
     \/ e.sharing.strategy = "TimeSlicing" /\ e.sharing.parameter \in Intervals \cup {Nil}
     \/ e.sharing.strategy = "SpacePartitioning" /\ e.sharing.parameter \in Nat \cup {Nil}

LEMMA ResultTyped ==
  ASSUME Given, NEW i \in DOMAIN results
  PROVE  results[i].device \in Devices /\ CapacityOf(results[i]) \in Quota
<1>1. results[i] \in Result
  BY DEF Given
<1> QED BY <1>1, ClaimConfigsAssumption DEF Result, CapacityOf

LEMMA QuotaTyped ==
  ASSUME NEW q \in Quota
  PROVE  [memory |-> q.memory \div MiB, cores |-> q.cores] \in Quota
<1>1. q.memory \in Int /\ q.cores \in Int /\ MiB \in Nat \ {0}
  BY ClaimConfigsAssumption DEF Quota
<1>2. q.memory \div MiB \in Int
  BY <1>1
<1> QED BY <1>1, <1>2 DEF Quota

LEMMA ConfigOfTyped ==
  ASSUME Given, NEW i \in DOMAIN results
  PROVE  ConfigOf(i) \in NpuConfig
<1>1. DefaultNpuConfig \in NpuConfig
  BY DEF DefaultNpuConfig, NpuConfig, Intervals
<1>2. \A k \in Winner(i) : possible[k].npu \in NpuConfig
  <2> SUFFICES ASSUME NEW k \in Winner(i) PROVE possible[k].npu \in NpuConfig
    OBVIOUS
  <2>1. k \in DOMAIN possible /\ possible[k].kind = "npu"
    BY DEF Winner, Applies
  <2>2. possible[k] \in AllocationConfig
    BY <2>1 DEF Given
  <2>3. possible[k].npu \in NpuConfigs
    BY <2>1, <2>2 DEF AllocationConfig
  <2> QED BY <2>3, ClaimConfigsAssumption
<1> QED BY <1>1, <1>2 DEF ConfigOf

(* A valid configuration tells a container one of the strategies.          *)
LEMMA SharingTyped ==
  ASSUME NEW npu \in NpuConfig, Valid(Normalize(npu))
  PROVE  LET e == SharingEnv(Normalize(npu)) IN
           \/ e.strategy = "TimeSlicing" /\ e.parameter \in Intervals \cup {Nil}
           \/ e.strategy = "SpacePartitioning" /\ e.parameter \in Nat \cup {Nil}
<1> DEFINE n == Normalize(npu)
<1>1. /\ n.strategy = IF npu.strategy = Nil THEN "TimeSlicing" ELSE npu.strategy
      /\ n.interval \in {npu.interval, "Default"} /\ n.count \in {npu.count, 1}
      /\ n.strategy = "SpacePartitioning" => n.count # Nil
  BY ClaimConfigsAssumption DEF Normalize, NpuConfig
<1>2. n.count \in Int \cup {Nil}
  BY <1>1 DEF NpuConfig
<1> HIDE DEF n
<1>3. CASE n.strategy = "TimeSlicing"
  <2>1. n.interval \in Intervals
    BY <1>3 DEF Valid, n
  <2> QED BY <1>3, <2>1 DEF SharingEnv, n
<1>4. CASE n.strategy # "TimeSlicing"
  <2>1. n.strategy = "SpacePartitioning" /\ n.count >= 0
    BY <1>4 DEF Valid, n
  <2>2. n.count \in Nat
    BY <1>1, <1>2, <2>1
  <2> QED BY <2>1, <2>2 DEF SharingEnv, n
<1> QED BY <1>3, <1>4

LEMMA NewEditsTyped ==
  ASSUME Given, configs = Decoded, NEW g \in Groups,
         Applicable(Devs(g), Normalize(configs[g].npu))
  PROVE  /\ DOMAIN NewEdits(g) = {results[i].device : i \in Of(g)}
         /\ \A d \in DOMAIN NewEdits(g) : d \in Devices /\ TypedEdits(NewEdits(g)[d])
<1>1. PICK c \in Nat \ {0} : \E q : ListsGroup(q, c, g)
  BY GroupIsListed
<1>2. PICK q : ListsGroup(q, c, g)
  BY <1>1
<1> DEFINE ds == Devs(g)
<1>3. /\ DOMAIN ds = 1 .. c
      /\ \A k \in 1 .. c : q[k] \in Of(g) /\ q[k] \in DOMAIN results /\ ds[k] = results[q[k]]
  BY <1>2 DEF ListsGroup, Of
<1>4. {ds[k].device : k \in DOMAIN ds} = {results[i].device : i \in Of(g)}
  BY <1>2, <1>3 DEF ListsGroup
<1>5. \A k \in 1 .. c : ds[k].device \in Devices /\ CapacityOf(ds[k]) \in Quota
  BY <1>3, ResultTyped
<1> HIDE DEF ds
<1>6. CASE core
  <2> DEFINE all == AllEdits(g)
  <2>1. NewEdits(g) = [d \in {ds[k].device : k \in DOMAIN ds} |->
                         IF \E k \in 2 .. Len(ds) : ds[k].device = d THEN NoEdits ELSE all]
    BY <1>6 DEF NewEdits, CoreEdits, AllEdits, ds
  <2>2. TypedEdits(NoEdits)
    BY DEF TypedEdits, NoEdits
  <2>3. TypedEdits(all)
    <3>1. all.visible \in Seq(Devices)
      <4>1. all.visible = [k \in 1 .. c |-> ds[k].device]
        BY <1>3 DEF AllEdits, ds
      <4>2. [k \in 1 .. c |-> ds[k].device] \in [1 .. c -> Devices]
        BY <1>5
      <4>3. \A s \in [1 .. c -> Devices] : s \in Seq(Devices)
        OBVIOUS
      <4> QED BY <4>1, <4>2, <4>3
    <3>2. all.quota \in Quota
      <4>1. CapacityOf(ds[1]) \in Quota
        BY <1>5
      <4> QED BY <4>1, QuotaTyped DEF AllEdits, ds
    <3> QED BY <3>1, <3>2 DEF TypedEdits, AllEdits
  <2> HIDE DEF all
  <2>4. \A d \in {ds[k].device : k \in DOMAIN ds} : d \in Devices
    BY <1>3, <1>5
  <2> QED BY <1>4, <2>1, <2>2, <2>3, <2>4
<1>7. CASE ~ core
  <2> DEFINE n == Normalize(configs[g].npu)
  <2>1. NewEdits(g) = [d \in {ds[k].device : k \in DOMAIN ds} |->
                         [visible |-> <<d>>, quota |-> Nil, sharing |-> SharingEnv(n)]]
    BY <1>7 DEF NewEdits, SliceEdits, ds
  <2>2. PICK i \in DOMAIN results : g = Group(i)
    BY DEF Groups
  <2>3. configs[g].npu \in NpuConfig /\ Valid(n)
    BY <2>2, PickedRight, ConfigOfTyped DEF Applicable
  <2>4. LET e == SharingEnv(n) IN
          \/ e.strategy = "TimeSlicing" /\ e.parameter \in Intervals \cup {Nil}
          \/ e.strategy = "SpacePartitioning" /\ e.parameter \in Nat \cup {Nil}
    BY <2>3, SharingTyped
  <2>5. \A d \in {ds[k].device : k \in DOMAIN ds} : d \in Devices
    BY <1>3, <1>5
  <2> HIDE DEF n
  <2>6. \A d \in Devices :
          TypedEdits([visible |-> <<d>>, quota |-> Nil, sharing |-> SharingEnv(n)])
    BY <2>4 DEF TypedEdits
  <2> QED BY <1>4, <2>1, <2>5, <2>6
<1> QED BY <1>6, <1>7

-----------------------------------------------------------------------------
(* The steps *)

FitsGroup(g) == Applicable(Devs(g), Normalize(configs[g].npu))

Applied(g) ==
  /\ FitsGroup(g)
  /\ \A i \in Of(g) : results[i].device \in DOMAIN edits
  /\ DifferentDevices =>
       \A i \in Of(g) : edits[results[i].device] = NewEdits(g)[results[i].device]

Collected(g) ==
  \A i \in Of(g) : \E k \in DOMAIN prepared : prepared[k].device = results[i].device

Items == {[device |-> d, edits |-> edits[d]] : d \in DOMAIN edits}

StepInv ==
  /\ step \in {"decode", "match", "apply", "collect", "done", "failed"}
  /\ template \in Templates \cup {NoTemplate}

ConfigsInv ==
  /\ step = "decode" => configs = <<>>
  /\ step \in {"match", "apply", "collect", "done"} => configs = Decoded
  /\ step = "failed" => \/ Broken /\ configs = <<>>
                        \/ configs = Decoded /\ \E i \in DOMAIN results : ~ FitsGroup(Group(i))

TodoInv ==
  /\ todo = {} \/ (configs = Decoded /\ todo \subseteq Groups)
  /\ step \in {"decode", "match", "done"} => todo = {}

EditsInv ==
  /\ step \in {"decode", "match"} => DOMAIN edits = {}
  /\ \A d \in DOMAIN edits :
       /\ d \in Devices /\ TypedEdits(edits[d])
       /\ \E i \in DOMAIN results : results[i].device = d
  /\ step = "apply" => \A g \in Groups \ todo : Applied(g)
  /\ step \in {"collect", "done"} => \A g \in Groups : Applied(g)

PreparedInv ==
  /\ step \notin {"collect", "done"} => prepared = <<>>
  /\ prepared \in Seq(Items)
  /\ step \in {"collect", "done"} => \A g \in Groups \ todo : Collected(g)

IInv == Given /\ StepInv /\ ConfigsInv /\ TodoInv /\ EditsInv /\ PreparedInv

LEMMA InitHolds == Init => IInv
<1> SUFFICES ASSUME Init PROVE IInv
  OBVIOUS
<1>1. Given
  <2>1. \E n \in Nat : possible \in [1 .. n -> AllocationConfig]
    BY ClaimConfigsAssumption DEF Init
  <2>2. \E n \in Nat \ {0} : results \in [1 .. n -> Result]
    BY ClaimConfigsAssumption DEF Init
  <2> QED BY <2>1, <2>2 DEF Init, Given
<1>2. DOMAIN edits = {} /\ prepared \in Seq(Items)
  BY DEF Init
<1> QED BY <1>1, <1>2 DEF Init, IInv, StepInv, ConfigsInv, TodoInv, EditsInv, PreparedInv

LEMMA SameClaim ==
  ASSUME UNCHANGED <<claimVars, configs>>
  PROVE  /\ Given <=> Given'
         /\ Decoded' = Decoded /\ Broken' = Broken /\ Groups' = Groups
         /\ DifferentDevices' <=> DifferentDevices
         /\ \A i : Group(i)' = Group(i)
         /\ \A g : Of(g)' = Of(g) /\ Devs(g)' = Devs(g) /\ NewEdits(g)' = NewEdits(g)
         /\ \A g : FitsGroup(g)' <=> FitsGroup(g)
<1>1. core' = core /\ possible' = possible /\ results' = results /\ configs' = configs
  BY DEF claimVars
<1>2. Given <=> Given'
  BY <1>1 DEF Given, Allocated
<1>3. Decoded' = Decoded /\ Broken' = Broken
  BY <1>1 DEF Decoded, Broken, GetOpaqueDeviceConfigs, Mine
<1>4. \A i : Group(i)' = Group(i)
  BY <1>1 DEF Group, SelectLastInSeq
<1>5. \A g : Of(g)' = Of(g)
  BY <1>1, <1>4 DEF Of
<1>6. \A g : Devs(g)' = Devs(g)
  BY <1>1, <1>5 DEF Devs, Members, Of
<1>7. \A g : NewEdits(g)' = NewEdits(g)
  BY <1>1, <1>6 DEF NewEdits
<1>8. \A g : FitsGroup(g)' <=> FitsGroup(g)
  BY <1>1, <1>6 DEF FitsGroup, Applicable
<1>9. Groups' = Groups /\ (DifferentDevices' <=> DifferentDevices)
  BY <1>1, <1>4 DEF Groups, DifferentDevices
<1> QED BY <1>2, <1>3, <1>4, <1>5, <1>6, <1>7, <1>8, <1>9

LEMMA DecodeStep ==
  ASSUME IInv, Decode
  PROVE  IInv'
<1>1. /\ step = "decode" /\ step' = "match" /\ configs' = Decoded /\ todo = {} /\ prepared = <<>>
      /\ DOMAIN edits = {}
      /\ UNCHANGED <<core, possible, results, template, todo, edits, prepared>>
  BY DEF Decode, Decoded, claimVars, IInv, TodoInv, EditsInv, PreparedInv
<1>2. Given' /\ Decoded' = Decoded
  BY <1>1 DEF IInv, Given, Allocated, Decoded, GetOpaqueDeviceConfigs, Mine
<1>3. Items' = Items
  BY <1>1 DEF Items
<1> QED BY <1>1, <1>2, <1>3 DEF IInv, StepInv, ConfigsInv, TodoInv, EditsInv, PreparedInv

LEMMA FailStep ==
  ASSUME IInv, DecodeFails \/ \E g \in todo : ApplyFails(g)
  PROVE  IInv'
<1>1. /\ step' = "failed" /\ UNCHANGED <<claimVars, configs, template, todo, edits, prepared>>
      /\ step \in {"decode", "apply"}
  BY DEF DecodeFails, ApplyFails, Fail
<1>2. Given' /\ StepInv' /\ TodoInv'
  BY <1>1, SameClaim DEF IInv, StepInv, TodoInv
<1>3. ConfigsInv'
  <2>1. CASE DecodeFails
    BY <1>1, <2>1, SameClaim DEF DecodeFails, IInv, ConfigsInv
  <2>2. CASE \E g \in todo : ApplyFails(g)
    <3>1. PICK g \in Groups : ~ FitsGroup(g)
      BY <2>2 DEF ApplyFails, FitsGroup, IInv, TodoInv
    <3>2. PICK i \in DOMAIN results : ~ FitsGroup(Group(i))
      BY <3>1 DEF Groups
    <3>3. configs = Decoded /\ results' = results
      BY <1>1, <2>2 DEF ApplyFails, IInv, ConfigsInv, claimVars
    <3> QED BY <1>1, <3>2, <3>3, SameClaim DEF ConfigsInv
  <2> QED BY <2>1, <2>2
<1>4. EditsInv' /\ PreparedInv'
  <2>1. results' = results /\ Items' = Items
    BY <1>1 DEF claimVars, Items
  <2> QED BY <1>1, <2>1 DEF IInv, EditsInv, PreparedInv, TypedEdits
<1> QED BY <1>2, <1>3, <1>4 DEF IInv

LEMMA MatchStep ==
  ASSUME IInv, Match
  PROVE  IInv'
<1>1. /\ step = "match" /\ step' = "apply" /\ todo' = Groups /\ configs = Decoded
      /\ UNCHANGED <<claimVars, configs, edits, prepared>> /\ DOMAIN edits = {} /\ prepared = <<>>
  BY DEF Match, IInv, ConfigsInv, EditsInv, PreparedInv
<1>2. template' \in Templates \cup {NoTemplate}
  <2> DEFINE I == {k \in 1 .. Len(configs) : configs[k].npu.template \in Templates}
  <2>1. FirstTemplate = IF (IF I # {} THEN Min(I) ELSE 0) = 0 THEN NoTemplate
                        ELSE configs[IF I # {} THEN Min(I) ELSE 0].npu.template
    BY DEF FirstTemplate, SelectInSeq
  <2>2. I # {} => Min(I) \in I
    <3>1. I \in SUBSET Nat
      OBVIOUS
    <3> HIDE DEF I
    <3> QED BY <3>1, Least
  <2>3. FirstTemplate \in Templates \cup {NoTemplate}
    <3>1. CASE I = {}
      BY <2>1, <3>1
    <3>2. CASE I # {}
      <4>1. Min(I) \in I /\ Min(I) # 0
        BY <2>2, <3>2
      <4>2. FirstTemplate = configs[Min(I)].npu.template
        BY <2>1, <3>2, <4>1
      <4> QED BY <4>1, <4>2
    <3> QED BY <3>1, <3>2
  <2> QED BY <2>3 DEF Match
<1>3. Items' = Items
  BY <1>1 DEF Items
<1> QED BY <1>1, <1>2, <1>3, SameClaim
        DEF IInv, StepInv, ConfigsInv, TodoInv, EditsInv, PreparedInv

(* A group leaves the edits of the other groups alone when no device comes *)
(* twice.                                                                  *)
LEMMA ApplyStep ==
  ASSUME IInv, NEW g \in todo, Apply(g)
  PROVE  IInv'
<1> DEFINE new == NewEdits(g)
<1>1. /\ step = "apply" /\ configs = Decoded /\ g \in Groups /\ prepared = <<>>
      /\ UNCHANGED <<claimVars, configs, template, prepared>>
  BY DEF Apply, IInv, ConfigsInv, TodoInv, PreparedInv
<1>2. /\ FitsGroup(g)
      /\ edits' = [d \in DOMAIN edits \cup DOMAIN new |->
                     IF d \in DOMAIN new THEN new[d] ELSE edits[d]]
  BY DEF Apply, FitsGroup, NewEdits
<1>3. /\ DOMAIN new = {results[i].device : i \in Of(g)}
      /\ \A d \in DOMAIN new : d \in Devices /\ TypedEdits(new[d])
  BY <1>1, <1>2, NewEditsTyped DEF FitsGroup, IInv
<1> HIDE DEF new
<1>4. /\ DOMAIN edits' = DOMAIN edits \cup DOMAIN new
      /\ \A d \in DOMAIN new : edits'[d] = new[d]
      /\ \A d \in DOMAIN edits \ DOMAIN new : edits'[d] = edits[d]
  BY <1>2
<1>5. \/ todo = {g} /\ todo' = Groups /\ step' = "collect"
      \/ todo # {g} /\ todo' = todo \ {g} /\ step' = "apply"
  BY <1>1 DEF Apply
<1>6. Given' /\ StepInv' /\ ConfigsInv' /\ TodoInv'
  <2>1. Given' /\ Decoded' = Decoded /\ Groups' = Groups
    BY <1>1, SameClaim DEF IInv
  <2>2. todo' \subseteq Groups
    BY <1>1, <1>5 DEF IInv, TodoInv
  <2> QED BY <1>1, <1>5, <2>1, <2>2 DEF IInv, StepInv, ConfigsInv, TodoInv
<1>7. ASSUME NEW h \in Groups, h = g \/ h \notin todo PROVE Applied(h)'
  <2>1. /\ results' = results /\ Of(h)' = Of(h) /\ NewEdits(h)' = NewEdits(h)
        /\ (FitsGroup(h)' <=> FitsGroup(h)) /\ (DifferentDevices' <=> DifferentDevices)
    BY <1>1, SameClaim DEF claimVars
  <2>2. CASE h = g
    <3>1. \A i \in Of(h) : results[i].device \in DOMAIN new
      BY <1>3, <2>2
    <3>2. \A i \in Of(h) : edits'[results[i].device] = NewEdits(h)[results[i].device]
      BY <1>4, <2>2, <3>1 DEF new
    <3> QED BY <1>2, <1>4, <2>1, <2>2, <3>1, <3>2 DEF Applied
  <2>3. CASE h # g
    <3>1. Applied(h)
      BY <1>1, <1>7, <2>3 DEF IInv, EditsInv
    <3>2. ASSUME DifferentDevices, NEW i \in Of(h)
          PROVE  edits'[results[i].device] = NewEdits(h)[results[i].device]
      <4>1. results[i].device \notin DOMAIN new
        <5> SUFFICES ASSUME NEW j \in Of(g), results[i].device = results[j].device PROVE FALSE
          BY <1>3
        <5>1. i # j /\ i \in DOMAIN results /\ j \in DOMAIN results
          BY <2>3 DEF Of
        <5> QED BY <3>2, <5>1 DEF DifferentDevices
      <4> QED BY <1>4, <3>1, <3>2, <4>1 DEF Applied
    <3>3. FitsGroup(h) /\ \A i \in Of(h) : results[i].device \in DOMAIN edits
      BY <3>1 DEF Applied
    <3> QED BY <1>4, <2>1, <3>2, <3>3 DEF Applied
  <2> QED BY <2>2, <2>3
<1>8. EditsInv'
  <2>1. Groups' = Groups /\ results' = results
    BY <1>1, SameClaim DEF claimVars
  <2>2. ASSUME NEW d \in DOMAIN edits'
        PROVE  /\ d \in Devices /\ TypedEdits(edits'[d])
               /\ \E i \in DOMAIN results : results[i].device = d
    <3>1. CASE d \in DOMAIN new
      BY <1>3, <1>4, <3>1 DEF Of
    <3>2. CASE d \in DOMAIN edits \ DOMAIN new
      BY <1>4, <3>2 DEF IInv, EditsInv
    <3> QED BY <1>4, <2>2, <3>1, <3>2
  <2>3. \A d \in DOMAIN edits' : TypedEdits(edits[d])' <=> TypedEdits(edits'[d])
    BY DEF TypedEdits
  <2>4. step' = "apply" => \A h \in Groups \ todo' : Applied(h)'
    BY <1>5, <1>7
  <2>5. step' \in {"collect", "done"} => \A h \in Groups : Applied(h)'
    BY <1>5, <1>7
  <2> QED BY <1>5, <2>1, <2>2, <2>3, <2>4, <2>5 DEF EditsInv
<1>9. PreparedInv'
  <2>1. prepared' = <<>> /\ Groups' = Groups
    BY <1>1, SameClaim
  <2> QED BY <1>5, <2>1 DEF PreparedInv
<1> QED BY <1>6, <1>8, <1>9 DEF IInv

LEMMA JoinedLength ==
  ASSUME NEW S, NEW a \in Seq(S), NEW b \in Seq(S)
  PROVE  Len(a \o b) = Len(a) + Len(b)
  OBVIOUS

LEMMA CollectStep ==
  ASSUME IInv, NEW g \in todo, Collect(g)
  PROVE  IInv'
<1>1. /\ step = "collect" /\ configs = Decoded /\ g \in Groups
      /\ UNCHANGED <<claimVars, configs, template, edits>>
      /\ todo' = todo \ {g} /\ step' = IF todo' = {} THEN "done" ELSE step
  BY DEF Collect, IInv, ConfigsInv, TodoInv
<1>2. /\ results' = results /\ Given' /\ Decoded' = Decoded /\ Groups' = Groups
      /\ \A h \in Groups : Of(h)' = Of(h)
  BY <1>1, SameClaim DEF IInv, claimVars
<1>3. PICK c \in Nat \ {0} : \E q : ListsGroup(q, c, g)
  BY <1>1, GroupIsListed DEF IInv
<1>4. PICK q : ListsGroup(q, c, g)
  BY <1>3
<1> DEFINE ds == Devs(g)
           more == [k \in DOMAIN ds |-> [device |-> ds[k].device, edits |-> edits[ds[k].device]]]
<1>5. /\ DOMAIN ds = 1 .. c
      /\ \A k \in 1 .. c : q[k] \in Of(g) /\ ds[k] = results[q[k]]
      /\ \A i \in Of(g) : \E k \in 1 .. c : ds[k] = results[i]
  BY <1>4 DEF ListsGroup
<1>6. \A i \in Of(g) : results[i].device \in DOMAIN edits
  BY <1>1 DEF IInv, EditsInv, Applied
<1>7. prepared' = prepared \o more
  BY DEF Collect
<1> HIDE DEF ds
<1>8. more \in Seq(Items) /\ Len(more) = c
  <2>1. \A k \in 1 .. c : [device |-> ds[k].device, edits |-> edits[ds[k].device]] \in Items
    BY <1>5, <1>6 DEF Items
  <2>2. more \in [1 .. c -> Items]
    BY <1>5, <2>1
  <2> QED BY <2>2
<1>9. \A k \in 1 .. c : more[k].device = ds[k].device
  BY <1>5
<1> HIDE DEF more
<1>10. prepared \in Seq(Items) /\ Items' = Items
  BY <1>1 DEF IInv, PreparedInv, Items
<1>11. /\ prepared' \in Seq(Items) /\ DOMAIN prepared' = 1 .. Len(prepared) + c
       /\ DOMAIN prepared = 1 .. Len(prepared) /\ Len(prepared) \in Nat
       /\ \A k \in DOMAIN prepared : k \in DOMAIN prepared' /\ prepared'[k] = prepared[k]
       /\ \A k \in 1 .. c : Len(prepared) + k \in DOMAIN prepared'
                            /\ prepared'[Len(prepared) + k] = more[k]
  <2> DEFINE l == Len(prepared)
  <2>1. l \in Nat /\ DOMAIN prepared = 1 .. l
    BY <1>10
  <2>2. prepared' \in Seq(Items)
    BY <1>7, <1>8, <1>10
  <2>3. Len(prepared') = l + c
    BY <1>7, <1>8, <1>10, JoinedLength
  <2>4. DOMAIN prepared' = 1 .. l + c
    BY <2>2, <2>3
  <2>5. \A k \in 1 .. l : prepared'[k] = prepared[k]
    BY <1>7, <1>8, <1>10
  <2>6. \A k \in 1 .. c : prepared'[l + k] = more[k]
    BY <1>7, <1>8, <1>10
  <2> HIDE DEF l
  <2>7. /\ \A k \in 1 .. l : k \in 1 .. l + c
        /\ \A k \in 1 .. c : l + k \in 1 .. l + c
    BY <2>1
  <2> QED BY <2>1, <2>2, <2>4, <2>5, <2>6, <2>7 DEF l
<1>12. ASSUME NEW h \in Groups, h \notin todo' PROVE Collected(h)'
  <2>1. CASE h = g
    <3> SUFFICES ASSUME NEW i \in Of(g)
                 PROVE  \E k \in DOMAIN prepared' : prepared'[k].device = results[i].device
      BY <1>2, <2>1 DEF Collected
    <3>1. PICK k \in 1 .. c : ds[k] = results[i]
      BY <1>5
    <3> QED BY <1>9, <1>11, <3>1
  <2>2. CASE h # g
    <3>1. Collected(h)
      BY <1>1, <1>12, <2>2 DEF IInv, PreparedInv
    <3> QED BY <1>2, <1>11, <3>1 DEF Collected
  <2> QED BY <2>1, <2>2
<1>13. PreparedInv'
  BY <1>1, <1>2, <1>10, <1>11, <1>12 DEF PreparedInv
<1>14. StepInv' /\ ConfigsInv' /\ TodoInv'
  BY <1>1, <1>2 DEF IInv, StepInv, ConfigsInv, TodoInv
<1>15. EditsInv'
  <2>1. \A h \in Groups : Applied(h)'
    <3> SUFFICES ASSUME NEW h \in Groups PROVE Applied(h)'
      OBVIOUS
    <3>1. Applied(h)
      BY <1>1 DEF IInv, EditsInv
    <3>2. /\ (FitsGroup(h)' <=> FitsGroup(h)) /\ (DifferentDevices' <=> DifferentDevices)
          /\ NewEdits(h)' = NewEdits(h) /\ edits' = edits
      BY <1>1, SameClaim
    <3> QED BY <1>2, <3>1, <3>2 DEF Applied
  <2>2. \A d \in DOMAIN edits : /\ d \in Devices /\ TypedEdits(edits[d])
                                /\ \E i \in DOMAIN results : results[i].device = d
    BY DEF IInv, EditsInv
  <2>3. \A d \in DOMAIN edits : TypedEdits(edits[d])' <=> TypedEdits(edits[d])
    BY <1>1 DEF TypedEdits
  <2> QED BY <1>1, <1>2, <2>1, <2>2, <2>3 DEF EditsInv
<1> QED BY <1>2, <1>13, <1>14, <1>15 DEF IInv

LEMMA StutterKeeps ==
  ASSUME IInv, UNCHANGED vars
  PROVE  IInv'
<1>1. /\ UNCHANGED <<claimVars, configs>> /\ results' = results
      /\ step' = step /\ template' = template /\ todo' = todo /\ edits' = edits
      /\ prepared' = prepared
  BY DEF vars, claimVars
<1>2. Given' /\ StepInv' /\ TodoInv'
  BY <1>1, SameClaim DEF IInv, StepInv, TodoInv
<1>3. ConfigsInv'
  BY <1>1, SameClaim DEF IInv, ConfigsInv
<1>4. \A h \in Groups : Applied(h)' <=> Applied(h)
  BY <1>1, SameClaim DEF Applied
<1>5. EditsInv'
  BY <1>1, <1>4, SameClaim DEF IInv, EditsInv, TypedEdits
<1>6. PreparedInv'
  BY <1>1, SameClaim DEF IInv, PreparedInv, Items, Collected
<1> QED BY <1>2, <1>3, <1>5, <1>6 DEF IInv

LEMMA Inductive == IInv /\ [Next]_vars => IInv'
  BY DecodeStep, FailStep, MatchStep, ApplyStep, CollectStep, StutterKeeps DEF Next

LEMMA InvHolds == Spec => []IInv
  BY InitHolds, Inductive, PTL DEF Spec

(* Every variable has its type, and a container is told a strategy with a  *)
(* parameter of its own only.                                              *)
THEOREM ConfigsTypes == Spec => []ConfigsTypeOK
<1>1. IInv => ConfigsTypeOK
  <2> SUFFICES ASSUME IInv PROVE ConfigsTypeOK
    OBVIOUS
  <2>1. configs = <<>> \/ configs = Decoded
    BY DEF IInv, StepInv, ConfigsInv
  <2>2. todo \subseteq DOMAIN configs
    BY PickedRight DEF IInv, TodoInv, Groups
  <2>3. ASSUME NEW k \in DOMAIN configs
        PROVE  configs[k] \in [requests : SUBSET Requests, npu : NpuConfig]
    <3>1. configs = Decoded
      BY <2>1, <2>3
    <3>2. PICK m, from : Ascending(configs, m, from)
      BY <3>1, DecodedAscends DEF IInv
    <3>3. k \in 1 .. m /\ (k = 1 \/ k \in 2 .. m)
      BY <2>3, <3>2 DEF Ascending
    <3>4. CASE k = 1
      BY <3>2, <3>4 DEF Ascending, DefaultNpuConfig, NpuConfig, Intervals
    <3>5. CASE k \in 2 .. m
      <4>1. /\ from[k] \in DOMAIN possible /\ possible[from[k]].kind = "npu"
            /\ configs[k] = [requests |-> possible[from[k]].requests, npu |-> possible[from[k]].npu]
        BY <3>2, <3>5 DEF Ascending
      <4>2. possible[from[k]] \in AllocationConfig
        BY <4>1 DEF IInv, Given
      <4>3. possible[from[k]].requests \in SUBSET Requests /\ possible[from[k]].npu \in NpuConfig
        BY <4>1, <4>2, ClaimConfigsAssumption DEF AllocationConfig
      <4> QED BY <4>1, <4>3
    <3> QED BY <3>3, <3>4, <3>5
  <2>4. \A d \in DOMAIN edits :
       /\ d \in Devices /\ edits[d].visible \in Seq(Devices)
       /\ edits[d].quota \in Quota \cup {Nil}
       /\ \/ edits[d].sharing = Nil
          \/ /\ edits[d].sharing.strategy = "TimeSlicing"
             /\ edits[d].sharing.parameter \in Intervals \cup {Nil}
          \/ /\ edits[d].sharing.strategy = "SpacePartitioning"
             /\ edits[d].sharing.parameter \in Nat \cup {Nil}
    BY DEF IInv, EditsInv, TypedEdits
  <2>5. \A i \in DOMAIN prepared :
          prepared[i].device \in DOMAIN edits /\ prepared[i].edits = edits[prepared[i].device]
    <3>1. \A i \in DOMAIN prepared : prepared[i] \in Items
      BY DEF IInv, PreparedInv
    <3> QED BY <3>1 DEF Items
  <2> QED BY <2>2, <2>3, <2>4, <2>5 DEF IInv, StepInv, ConfigsTypeOK
<1> QED BY <1>1, InvHolds, PTL

(* Traditional mode: the container is told the sharing of the              *)
(* configuration with precedence, and a claim is refused only if it cannot *)
(* be read or such a configuration is not valid.                           *)
THEOREM PrecedenceHolds == Spec => []ConfigPrecedence
<1>1. IInv => ConfigPrecedence
  <2> SUFFICES ASSUME IInv, ~ core PROVE ConfigPrecedence
    BY DEF ConfigPrecedence
  <2> DEFINE Good(i) == Valid(Normalize(ConfigOf(i)))
  <2>1. ASSUME step = "done", NEW i \in DOMAIN results
        PROVE  /\ Good(i)
               /\ \E k \in DOMAIN prepared :
                    /\ prepared[k].device = results[i].device
                    /\ prepared[k].edits.sharing = SharingEnv(Normalize(ConfigOf(i)))
    <3> DEFINE g == Group(i)
               d == results[i].device
               n == Normalize(ConfigOf(i))
    <3>1. configs = Decoded /\ todo = {} /\ g \in Groups /\ i \in Of(g)
      BY <2>1 DEF IInv, ConfigsInv, TodoInv, Groups, Of
    <3>2. configs[g].npu = ConfigOf(i)
      BY <3>1, PickedRight DEF IInv
    <3>3. DifferentDevices
      BY DEF IInv, Given, Allocated, DifferentDevices
    <3>4. /\ Applicable(Devs(g), n) /\ d \in DOMAIN edits
          /\ edits[d] = NewEdits(g)[d]
      BY <2>1, <3>1, <3>2, <3>3 DEF IInv, EditsInv, Applied, FitsGroup
    <3>5. d \in DOMAIN NewEdits(g)
      BY <3>1, <3>2, <3>4, NewEditsTyped DEF IInv
    <3>6. edits[d].sharing = SharingEnv(n)
      BY <3>2, <3>4, <3>5 DEF NewEdits, SliceEdits
    <3>7. PICK k \in DOMAIN prepared : prepared[k].device = d
      BY <2>1, <3>1 DEF IInv, PreparedInv, Collected
    <3>8. prepared[k].edits = edits[d]
      <4>1. prepared[k] \in Items
        BY DEF IInv, PreparedInv
      <4> QED BY <3>7, <4>1 DEF Items
    <3> QED BY <3>4, <3>6, <3>7, <3>8 DEF Applicable
  <2>2. ASSUME step = "failed", ~ Broken PROVE \E i \in DOMAIN results : ~ Good(i)
    <3>1. PICK i \in DOMAIN results : configs = Decoded /\ ~ FitsGroup(Group(i))
      BY <2>2 DEF IInv, ConfigsInv
    <3>2. configs[Group(i)].npu = ConfigOf(i)
      BY <3>1, PickedRight DEF IInv
    <3> QED BY <3>1, <3>2 DEF FitsGroup, Applicable
  <2> QED BY <2>1, <2>2 DEF ConfigPrecedence
<1> QED BY <1>1, InvHolds, PTL

-----------------------------------------------------------------------------
(* Core mode, when the devices of the claim are different: one device of a *)
(* group has the edits of all, the others have none.                       *)

LEMMA GroupEdits ==
  ASSUME IInv, core, step = "done", DifferentDevices, NEW g \in Groups
  PROVE  /\ \E i \in Of(g) : edits[results[i].device] = AllEdits(g)
         /\ \A i \in Of(g) : edits[results[i].device] \in {NoEdits, AllEdits(g)}
         /\ ToSet(AllEdits(g).visible) = {results[i].device : i \in Of(g)}
         /\ AllEdits(g).visible # <<>>
         /\ AllEdits(g).quota \in Quota
         /\ \A i \in Of(g) : CapacityOf(results[i]).memory = AllEdits(g).quota.memory * MiB
<1>1. PICK c \in Nat \ {0} : \E q : ListsGroup(q, c, g)
  BY GroupIsListed DEF IInv
<1>2. PICK q : ListsGroup(q, c, g)
  BY <1>1
<1> DEFINE ds == Devs(g)
<1>3. /\ DOMAIN ds = 1 .. c
      /\ \A k \in 1 .. c : q[k] \in Of(g) /\ q[k] \in DOMAIN results /\ ds[k] = results[q[k]]
      /\ \A j, k \in 1 .. c : j # k => q[j] # q[k]
      /\ \A i \in Of(g) : \E k \in 1 .. c : q[k] = i
      /\ ds = [k \in 1 .. c |-> results[q[k]]]
  BY <1>2 DEF ListsGroup, Of
<1>4. \A k \in 1 .. c : CapacityOf(ds[k]) \in Quota /\ ds[k] \in Result
  <2>1. \A i \in DOMAIN results : CapacityOf(results[i]) \in Quota
    BY ResultTyped DEF IInv
  <2>2. \A i \in DOMAIN results : results[i] \in Result
    BY DEF IInv, Given
  <2> HIDE DEF ds
  <2> QED BY <1>3, <2>1, <2>2
<1>5. /\ FitsGroup(g)
      /\ \A i \in Of(g) : edits[results[i].device] = NewEdits(g)[results[i].device]
  BY DEF IInv, EditsInv, Applied
<1>6. SameQuota(ds) /\ Accepted(CapacityOf(ds[1]))
  BY <1>5 DEF FitsGroup, Applicable
<1> DEFINE all == AllEdits(g)
<1>7. /\ all.visible = [k \in DOMAIN ds |-> ds[k].device]
      /\ all.quota = [memory |-> CapacityOf(ds[1]).memory \div MiB, cores |-> CapacityOf(ds[1]).cores]
  BY DEF AllEdits
<1>8. NewEdits(g) = [d \in {ds[k].device : k \in DOMAIN ds} |->
                       IF \E k \in 2 .. Len(ds) : ds[k].device = d THEN NoEdits ELSE all]
  BY DEF NewEdits, CoreEdits, AllEdits
<1> HIDE DEF ds, all
<1>9. Len(ds) = c
  <2>1. ds \in [1 .. c -> Result]
    BY <1>3, <1>4
  <2> QED BY <2>1
<1>10. \A k \in 1 .. c : edits[ds[k].device] = NewEdits(g)[ds[k].device]
  BY <1>3, <1>5
<1>11. \A k \in 1 .. c : edits[ds[k].device] = IF \E j \in 2 .. c : ds[j].device = ds[k].device
                                               THEN NoEdits ELSE all
  <2> SUFFICES ASSUME NEW k \in 1 .. c
               PROVE  NewEdits(g)[ds[k].device] =
                        IF \E j \in 2 .. c : ds[j].device = ds[k].device THEN NoEdits ELSE all
    BY <1>10
  <2>1. ds[k].device \in {ds[j].device : j \in DOMAIN ds}
    BY <1>3
  <2> QED BY <1>8, <1>9, <2>1
<1>12. ASSUME NEW j \in 2 .. c PROVE ds[j].device # ds[1].device
  <2>1. j \in 1 .. c /\ 1 \in 1 .. c /\ j # 1
    OBVIOUS
  <2>2. q[j] # q[1] /\ q[j] \in DOMAIN results /\ q[1] \in DOMAIN results
    BY <1>3, <2>1
  <2> QED BY <1>3, <2>1, <2>2 DEF DifferentDevices
<1>13. \E i \in Of(g) : edits[results[i].device] = all
  <2>1. 1 \in 1 .. c
    OBVIOUS
  <2>2. edits[ds[1].device] = all
    BY <1>11, <1>12, <2>1
  <2> QED BY <1>3, <2>1, <2>2
<1>14. \A i \in Of(g) : edits[results[i].device] \in {NoEdits, all}
  BY <1>3, <1>11
<1>15. ToSet(all.visible) = {results[i].device : i \in Of(g)}
  <2>1. ToSet(all.visible) = {ds[k].device : k \in 1 .. c}
    BY <1>3, <1>7 DEF ToSet
  <2> QED BY <1>3, <2>1
<1>16. all.visible # <<>>
  <2>1. DOMAIN all.visible = 1 .. c /\ 1 \in 1 .. c
    BY <1>3, <1>7
  <2>2. DOMAIN <<>> = {}
    OBVIOUS
  <2> QED BY <2>1, <2>2
<1>17. all.quota \in Quota
  <2>1. CapacityOf(ds[1]) \in Quota
    BY <1>4
  <2> QED BY <1>7, <2>1, QuotaTyped
<1>18. ASSUME NEW i \in Of(g)
       PROVE  CapacityOf(results[i]).memory = all.quota.memory * MiB
  <2>1. PICK k \in 1 .. c : q[k] = i
    BY <1>3
  <2>2. CapacityOf(ds[k]) = CapacityOf(ds[1])
    <3>1. 1 \in 1 .. c /\ q[1] \in DOMAIN results /\ q[k] \in DOMAIN results
      BY <1>3
    <3>2. ds[k].quota = Nil <=> ds[1].quota = Nil
      BY <1>3, <3>1 DEF IInv, Given, Allocated
    <3>3. ds[k].quota # Nil /\ ds[1].quota # Nil => ds[k].quota = ds[1].quota
      BY <1>3, <1>6, <3>1 DEF SameQuota
    <3> QED BY <3>2, <3>3 DEF CapacityOf
  <2>3. LET m == CapacityOf(ds[1]).memory
        IN  m \in Int /\ m % MiB = 0 /\ all.quota.memory = m \div MiB
    <3>1. CapacityOf(ds[1]) \in Quota
      BY <1>4
    <3> QED BY <1>6, <1>7, <3>1 DEF Accepted, Quota
  <2>4. \A m \in Int : m % MiB = 0 => (m \div MiB) * MiB = m
    <3>1. MiB \in Nat \ {0}
      BY ClaimConfigsAssumption
    <3> QED BY <3>1
  <2> QED BY <1>3, <2>1, <2>2, <2>3, <2>4
<1> QED BY <1>13, <1>14, <1>15, <1>16, <1>17, <1>18 DEF all

(* Two groups have no device in common.                                    *)
LEMMA GroupsSeeTheirOwn ==
  ASSUME IInv, core, step = "done", DifferentDevices, NEW g \in Groups, NEW h \in Groups,
         AllEdits(g).visible = AllEdits(h).visible
  PROVE  g = h
<1>1. PICK i \in DOMAIN results : g = Group(i)
  BY DEF Groups
<1>2. i \in Of(g)
  BY <1>1 DEF Of
<1>3. results[i].device \in {results[j].device : j \in Of(h)}
  BY <1>2, GroupEdits
<1>4. PICK j \in Of(h) : results[i].device = results[j].device
  BY <1>3
<1>5. j \in DOMAIN results /\ Group(j) = h
  BY DEF Of
<1> QED BY <1>1, <1>4, <1>5 DEF DifferentDevices

LEMMA PreparedEdits ==
  ASSUME IInv, core, step = "done", DifferentDevices
  PROVE  /\ \A g \in Groups : \E k \in DOMAIN prepared : prepared[k].edits = AllEdits(g)
         /\ \A k \in DOMAIN prepared :
              \E g \in Groups : prepared[k].edits \in {NoEdits, AllEdits(g)}
         /\ prepared \in Seq(Items)
<1>1. prepared \in Seq(Items) /\ \A k \in DOMAIN prepared : prepared[k] \in Items
  BY DEF IInv, PreparedInv
<1>2. \A k \in DOMAIN prepared : /\ prepared[k].device \in DOMAIN edits
                                 /\ prepared[k].edits = edits[prepared[k].device]
  BY <1>1 DEF Items
<1>3. ASSUME NEW g \in Groups PROVE \E k \in DOMAIN prepared : prepared[k].edits = AllEdits(g)
  <2>1. PICK i \in Of(g) : edits[results[i].device] = AllEdits(g)
    BY GroupEdits
  <2>2. Collected(g)
    BY DEF IInv, TodoInv, PreparedInv
  <2>3. PICK k \in DOMAIN prepared : prepared[k].device = results[i].device
    BY <2>2 DEF Collected
  <2> QED BY <1>2, <2>1, <2>3
<1>4. ASSUME NEW k \in DOMAIN prepared
      PROVE  \E g \in Groups : prepared[k].edits \in {NoEdits, AllEdits(g)}
  <2>1. PICK i \in DOMAIN results : results[i].device = prepared[k].device
    BY <1>2 DEF IInv, EditsInv
  <2>2. Group(i) \in Groups /\ i \in Of(Group(i))
    BY DEF Groups, Of
  <2>3. edits[results[i].device] \in {NoEdits, AllEdits(Group(i))}
    BY <2>2, GroupEdits
  <2> QED BY <1>2, <2>1, <2>2, <2>3
<1> QED BY <1>1, <1>3, <1>4

(* What the monitor finds in the edits of a claim.                         *)
LEMMA EnvIs ==
  ASSUME IInv, core, step = "done", DifferentDevices
  PROVE  /\ Visibles = {AllEdits(g).visible : g \in Groups}
         /\ EnvQuotas = {AllEdits(g).quota : g \in Groups}
         /\ IsFiniteSet(Visibles) /\ IsFiniteSet(EnvQuotas) /\ IsFiniteSet(Groups)
<1>1. /\ \A g \in Groups : \E k \in DOMAIN prepared : prepared[k].edits = AllEdits(g)
      /\ \A k \in DOMAIN prepared :
           \E g \in Groups : prepared[k].edits \in {NoEdits, AllEdits(g)}
      /\ prepared \in Seq(Items)
  BY PreparedEdits
<1>2. \A g \in Groups : AllEdits(g).visible # <<>> /\ AllEdits(g).quota # Nil
  BY GroupEdits, ClaimConfigsAssumption
<1>3. NoEdits.visible = <<>> /\ NoEdits.quota = Nil
  BY DEF NoEdits
<1>4. Visibles = {AllEdits(g).visible : g \in Groups}
  <2>1. ASSUME NEW v \in Visibles PROVE \E g \in Groups : AllEdits(g).visible = v
    <3>1. PICK k \in DOMAIN prepared : v = prepared[k].edits.visible /\ v # <<>>
      BY DEF Visibles
    <3> QED BY <1>1, <1>3, <3>1
  <2>2. ASSUME NEW g \in Groups PROVE AllEdits(g).visible \in Visibles
    BY <1>1, <1>2 DEF Visibles
  <2> QED BY <2>1, <2>2
<1>5. EnvQuotas = {AllEdits(g).quota : g \in Groups}
  <2>1. ASSUME NEW v \in EnvQuotas PROVE \E g \in Groups : AllEdits(g).quota = v
    <3>1. PICK k \in DOMAIN prepared : v = prepared[k].edits.quota /\ v # Nil
      BY DEF EnvQuotas
    <3> QED BY <1>1, <1>3, <3>1
  <2>2. ASSUME NEW g \in Groups PROVE AllEdits(g).quota \in EnvQuotas
    BY <1>1, <1>2 DEF EnvQuotas
  <2> QED BY <2>1, <2>2
<1>6. IsFiniteSet(Groups)
  <2>1. PICK n \in Nat : results \in [1 .. n -> Result]
    BY DEF IInv, Given
  <2> DEFINE f == [i \in 1 .. n |-> Group(i)]
  <2>2. f \in Surjection(1 .. n, Groups)
    <3>1. DOMAIN results = 1 .. n
      BY <2>1
    <3>2. f \in [1 .. n -> Groups] /\ \A g \in Groups : \E i \in 1 .. n : f[i] = g
      BY <3>1 DEF Groups
    <3> HIDE DEF f
    <3> QED BY <3>2 DEF Surjection
  <2> QED BY <2>1, <2>2, FS_Interval, FS_Surjection
<1>7. IsFiniteSet(Visibles)
  <2> DEFINE f == [g \in Groups |-> AllEdits(g).visible]
  <2>1. f \in [Groups -> Visibles] /\ \A v \in Visibles : \E g \in Groups : f[g] = v
    BY <1>4
  <2> HIDE DEF f
  <2>2. f \in Surjection(Groups, Visibles)
    BY <2>1 DEF Surjection
  <2> QED BY <1>6, <2>2, FS_Surjection
<1>8. IsFiniteSet(EnvQuotas)
  <2> DEFINE f == [g \in Groups |-> AllEdits(g).quota]
  <2>1. f \in [Groups -> EnvQuotas] /\ \A v \in EnvQuotas : \E g \in Groups : f[g] = v
    BY <1>5
  <2> HIDE DEF f
  <2>2. f \in Surjection(Groups, EnvQuotas)
    BY <2>1 DEF Surjection
  <2> QED BY <1>6, <2>2, FS_Surjection
<1> QED BY <1>4, <1>5, <1>6, <1>7, <1>8

LEMMA AtMostOne ==
  ASSUME NEW S, IsFiniteSet(S), ~ Cardinality(S) > 1, NEW a \in S, NEW b \in S
  PROVE  a = b
<1> SUFFICES ASSUME a # b PROVE FALSE
  OBVIOUS
<1>1. IsFiniteSet({a}) /\ Cardinality({a}) = 1
  BY FS_Singleton
<1>2. Cardinality({a} \cup {b}) = 2
  BY <1>1, FS_AddElement
<1>3. Cardinality({a} \cup {b}) <= Cardinality(S) /\ Cardinality(S) \in Nat
  BY FS_Subset, FS_CardinalityType
<1> QED BY <1>2, <1>3

(* Core mode: a claim that the monitor takes for supported shows its       *)
(* container all of its devices.                                           *)
THEOREM SupportedClaimsSeeAll == Spec => []SupportedSeesAll
<1>1. IInv => SupportedSeesAll
  <2> SUFFICES ASSUME IInv, core, step = "done", DifferentDevices, PreparedCoreQuota # Nil
               PROVE  SeenByContainer = {results[i].device : i \in DOMAIN results}
    BY DEF SupportedSeesAll
  <2>1. ~ Cardinality(Visibles) > 1
    BY DEF PreparedCoreQuota
  <2>2. \A g, h \in Groups : g = h
    <3> SUFFICES ASSUME NEW g \in Groups, NEW h \in Groups PROVE g = h
      OBVIOUS
    <3>1. AllEdits(g).visible \in Visibles /\ AllEdits(h).visible \in Visibles
      BY EnvIs
    <3>2. AllEdits(g).visible = AllEdits(h).visible
      BY <2>1, <3>1, EnvIs, AtMostOne
    <3> QED BY <3>2, GroupsSeeTheirOwn
  <2>3. PICK g \in Groups : TRUE
    BY DEF IInv, Given, Groups
  <2>4. Of(g) = DOMAIN results
    BY <2>2 DEF Of, Groups
  <2> DEFINE I == {k \in 1 .. Len(prepared) : prepared[k].edits.visible # <<>>}
  <2>5. Len(prepared) \in Nat /\ DOMAIN prepared = 1 .. Len(prepared)
    BY PreparedEdits
  <2>6. I \in SUBSET (1 .. Len(prepared)) /\ I # {}
    <3>1. PICK k \in DOMAIN prepared : prepared[k].edits = AllEdits(g)
      BY PreparedEdits
    <3>2. AllEdits(g).visible # <<>>
      BY GroupEdits
    <3> QED BY <2>5, <3>1, <3>2
  <2>7. Max(I) \in I
    <3> HIDE DEF I
    <3> QED BY <2>5, <2>6, Greatest
  <2>8. SeenByContainer = ToSet(prepared[Max(I)].edits.visible)
    <3>1. Max(I) # 0
      BY <2>7
    <3> QED BY <2>6, <3>1 DEF SeenByContainer, SelectLastInSeq
  <2>9. prepared[Max(I)].edits = AllEdits(g)
    <3>1. Max(I) \in DOMAIN prepared /\ prepared[Max(I)].edits.visible # <<>>
      BY <2>5, <2>7
    <3>2. PICK h \in Groups : prepared[Max(I)].edits \in {NoEdits, AllEdits(h)}
      BY <3>1, PreparedEdits
    <3>3. NoEdits.visible = <<>> /\ h = g
      BY <2>2 DEF NoEdits
    <3> QED BY <3>1, <3>2, <3>3
  <2> QED BY <2>4, <2>8, <2>9, GroupEdits
<1> QED BY <1>1, InvHolds, PTL

(* Core mode: the quota that the monitor reads back is the capacity that   *)
(* the scheduler took of every device, and one group is always supported.  *)
THEOREM QuotasReadBack == Spec => []QuotaReadBack
<1>1. IInv => QuotaReadBack
  <2> SUFFICES ASSUME IInv, core, step = "done", DifferentDevices
               PROVE  /\ PreparedCoreQuota # Nil =>
                           \A i \in DOMAIN results :
                             CapacityOf(results[i]).memory = PreparedCoreQuota
                      /\ Cardinality(Groups) = 1 => PreparedCoreQuota # Nil
    BY DEF QuotaReadBack
  <2>1. ASSUME PreparedCoreQuota # Nil, NEW i \in DOMAIN results
        PROVE  CapacityOf(results[i]).memory = PreparedCoreQuota
    <3> DEFINE q == CHOOSE q \in EnvQuotas : TRUE
    <3>1. Cardinality(EnvQuotas) = 1 /\ PreparedCoreQuota = q.memory * MiB
      BY <2>1 DEF PreparedCoreQuota
    <3>2. Group(i) \in Groups /\ i \in Of(Group(i))
      BY DEF Groups, Of
    <3>3. AllEdits(Group(i)).quota \in EnvQuotas
      BY <3>2, EnvIs
    <3>4. q \in EnvQuotas
      BY <3>3
    <3> HIDE DEF q
    <3>5. AllEdits(Group(i)).quota = q
      BY <3>1, <3>3, <3>4, EnvIs, AtMostOne
    <3> QED BY <3>1, <3>2, <3>5, GroupEdits
  <2>2. ASSUME Cardinality(Groups) = 1 PROVE PreparedCoreQuota # Nil
    <3>1. \A g, h \in Groups : g = h
      BY <2>2, EnvIs, AtMostOne
    <3>2. PICK g \in Groups : Groups = {g}
      BY <3>1 DEF IInv, Given, Groups
    <3>3. Visibles = {AllEdits(g).visible} /\ EnvQuotas = {AllEdits(g).quota}
      BY <3>2, EnvIs
    <3>4. Cardinality(Visibles) = 1 /\ Cardinality(EnvQuotas) = 1
      BY <3>3, FS_Singleton
    <3>5. PreparedCoreQuota = AllEdits(g).quota.memory * MiB
      BY <3>3, <3>4 DEF PreparedCoreQuota
    <3>6. AllEdits(g).quota.memory \in Int /\ MiB \in Int
      BY GroupEdits, ClaimConfigsAssumption DEF Quota
    <3>7. AllEdits(g).quota.memory * MiB \in Int
      BY <3>6
    <3> QED BY <3>5, <3>7, ClaimConfigsAssumption
  <2> QED BY <2>1, <2>2
<1> QED BY <1>1, InvHolds, PTL
=============================================================================
