------------------------- MODULE DeviceClassesProofs -------------------------
(***************************************************************************)
(* What holds of the classes in the API server, for any nodes, machines,   *)
(* templates, classes left by an earlier release, and failures.            *)
(***************************************************************************)
EXTENDS StartupProofs

-----------------------------------------------------------------------------
(* What the nodes want *)

LEMMA HardwareStays == [StartupNext]_startupVars => UNCHANGED hw
  BY DEF StartupNext, startupVars, Install, InstallerStopped, PluginRuns, StartPlugin, Discover,
         DiscoveryStep, ListChips, SetDeviceShare, LoadTemplates, BeginScan, ScanTurn,
         ListDevices, OpenFiles, CreateClasses, PluginEnds, discoveryVars

LEMMA SameWishes ==
  ASSUME UNCHANGED hw
  PROVE  EveryWish' = EveryWish /\ \A name : SpecsOf(name)' = SpecsOf(name)
  BY DEF EveryWish, SpecsOf, EveryModel, Templates, Machine

LEMMA WishesGrow ==
  ASSUME NEW M, NEW N, M \subseteq N, NEW T, NEW U, T \subseteq U
  PROVE  WishesFor(M, T) \subseteq WishesFor(N, U)
  BY DEF WishesFor

(* What a node with a manager wants is among the wishes of all nodes.      *)
LEMMA WantedIsAWish ==
  ASSUME NEW n \in Nodes, ManagerFilled(n), manager[n] # None
  PROVE  WishesFor(Models(n), manager[n].templates) \subseteq EveryWish
<1>1. Templates(n) # None /\ manager[n].templates = Templates(n)
  BY DEF ManagerFilled
<1>2. Models(n) \subseteq EveryModel(n)
  BY DEF ManagerFilled, Models
<1>3. WishesFor(Models(n), manager[n].templates) \subseteq WishesFor(EveryModel(n), Templates(n))
  BY <1>1, <1>2, WishesGrow
<1> QED BY <1>1, <1>3 DEF EveryWish

(* Of templates of the same sizes one is enough, where the nodes agree.    *)
LEMMA OneTemplateIsEnough ==
  ASSUME NEW M, NEW T, NEW U \in UniqueTemplates(T), WishesFor(M, T) \subseteq EveryWish,
         NEW w \in WishesFor(M, T), SpecsOf(w.name) = {w.spec}
  PROVE  \E v \in WishesFor(M, U) : v.name = w.name /\ v.spec = w.spec
<1>1. U \subseteq T /\ \A t \in T : \E u \in U : SameSizes(t, u)
  BY DEF UniqueTemplates
<1>2. ASSUME NEW v \in WishesFor(M, T), v.name = w.name PROVE v.spec = w.spec
  BY <1>2 DEF SpecsOf
<1>3. CASE \E m \in M : w = FullCardClass(m)
  BY <1>3 DEF WishesFor
<1>4. CASE \E m \in M, t \in T : w = MemoryClass(m, t)
  <2>1. PICK m \in M, t \in T : w = MemoryClass(m, t)
    BY <1>4
  <2>2. PICK u \in U : SameSizes(t, u)
    BY <1>1
  <2>3. MemoryClass(m, u) \in WishesFor(M, U) /\ MemoryClass(m, u) \in WishesFor(M, T)
    BY <1>1 DEF WishesFor
  <2>4. t.memory = u.memory
    BY <2>2 DEF SameSizes
  <2>5. MemoryClass(m, u).name = w.name
    BY <2>1, <2>4 DEF MemoryClass, Wish
  <2> QED BY <1>2, <2>3, <2>5
<1>5. CASE \E m \in M, t \in T : w = AICoreClass(m, t)
  <2>1. PICK m \in M, t \in T : w = AICoreClass(m, t)
    BY <1>5
  <2>2. PICK u \in U : SameSizes(t, u)
    BY <1>1
  <2>3. AICoreClass(m, u) \in WishesFor(M, U) /\ AICoreClass(m, u) \in WishesFor(M, T)
    BY <1>1 DEF WishesFor
  <2>4. t.aicore = u.aicore
    BY <2>2 DEF SameSizes
  <2>5. AICoreClass(m, u).name = w.name
    BY <2>1, <2>4 DEF AICoreClass, Wish
  <2> QED BY <1>2, <2>3, <2>5
<1> QED BY <1>3, <1>4, <1>5 DEF WishesFor

-----------------------------------------------------------------------------
(* The invariant: what a node has read of a class is what it did not want, *)
(* or another node has written the class since (ReadIsCurrent); and what a *)
(* clean job wants is there or still to be seen to (SeenTo).               *)

ReadIsCurrent(n) ==
  got[n] # None =>
    LET w == got[n].wish
    IN /\ w \in EveryWish /\ got[n].version \in Nat /\ got[n].version <= Version(w.name)
       /\ w.name \in DOMAIN classes =>
            IF got[n].version = Version(w.name) THEN classes[w.name].spec # w.spec
            ELSE classes[w.name].spec \in SpecsOf(w.name)

Pending(n, w) ==
  job[n] = "upsert" /\ \E v \in wishes[n] : v.name = w.name /\ v.spec = w.spec

SeenTo(n) ==
  clean[n] /\ job[n] \in {"upsert", "done"} =>
    \A w \in WishesFor(Models(n), manager[n].templates) :
      SpecsOf(w.name) = {w.spec} => RightClass(w) \/ Pending(n, w)

Positive == \A name \in DOMAIN classes : classes[name].version \in Nat \ {0}

JobPart(n) == wishes[n] \subseteq EveryWish /\ ReadIsCurrent(n) /\ SeenTo(n)

ClassesInv ==
  /\ DOMAIN job = Nodes /\ DOMAIN wishes = Nodes /\ DOMAIN got = Nodes /\ DOMAIN clean = Nodes
  /\ Positive
  /\ \A n \in Nodes : JobPart(n)

(* A class stays, or moves by one version to another wish for it.          *)
Moves(name) ==
  \/ /\ name \in DOMAIN classes <=> name \in DOMAIN classes'
     /\ name \in DOMAIN classes => classes'[name] = classes[name]
  \/ /\ name \in DOMAIN classes' /\ classes'[name].version = Version(name) + 1
     /\ classes'[name].spec \in SpecsOf(name)
     /\ name \in DOMAIN classes => classes[name].spec # classes'[name].spec

AllMove == \A name : Moves(name)

LEMMA ClassesInitHold == StartupInit => ClassesInv
  BY DeviceClassesAssumption
     DEF StartupInit, ClassesInit, ClassesInv, Positive, JobPart, ReadIsCurrent, SeenTo

LEMMA UnchangedMoves == UNCHANGED classes => AllMove
  BY DEF AllMove, Moves

LEMMA VersionIsNat == Positive => \A name : Version(name) \in Nat
  BY DEF Positive, Version

LEMMA WriteMoves ==
  ASSUME ClassesInv, NEW n \in Nodes, got[n] # None, Written(n)
  PROVE  AllMove
<1> DEFINE w == got[n].wish
<1>1. w \in EveryWish /\ w.spec \in SpecsOf(w.name)
  BY DEF ClassesInv, JobPart, ReadIsCurrent, SpecsOf
<1>2. CASE got[n].version # Version(w.name)
  BY <1>2, UnchangedMoves DEF Written
<1>3. CASE got[n].version = Version(w.name)
  <2>1. Put(w, got[n].version + 1)
    BY <1>3 DEF Written
  <2>2. /\ w.name \in DOMAIN classes'
        /\ classes'[w.name] = [spec |-> w.spec, version |-> got[n].version + 1]
        /\ \A name : name # w.name =>
             /\ name \in DOMAIN classes <=> name \in DOMAIN classes'
             /\ name \in DOMAIN classes => classes'[name] = classes[name]
    BY <2>1 DEF Put
  <2>3. w.name \in DOMAIN classes => classes[w.name].spec # w.spec
    BY <1>3 DEF ClassesInv, JobPart, ReadIsCurrent
  <2> QED BY <1>1, <1>3, <2>2, <2>3 DEF AllMove, Moves
<1> QED BY <1>2, <1>3

LEMMA VersionsStayPositive ==
  ASSUME Positive, AllMove
  PROVE  Positive'
<1> SUFFICES ASSUME NEW name \in DOMAIN classes' PROVE classes'[name].version \in Nat \ {0}
  BY DEF Positive
<1>1. Version(name) \in Nat /\ Moves(name)
  BY VersionIsNat DEF AllMove
<1> QED BY <1>1 DEF Moves, Positive

(* What was read stays current, whoever writes.                            *)
LEMMA ReadStaysCurrent ==
  ASSUME Positive, AllMove, UNCHANGED hw, NEW n \in Nodes, ReadIsCurrent(n), got'[n] = got[n]
  PROVE  ReadIsCurrent(n)'
<1> SUFFICES ASSUME got[n] # None PROVE ReadIsCurrent(n)'
  BY DEF ReadIsCurrent
<1> DEFINE w == got[n].wish
<1>1. /\ w \in EveryWish /\ got[n].version \in Nat /\ got[n].version <= Version(w.name)
      /\ Version(w.name) \in Nat /\ Moves(w.name)
  BY VersionIsNat DEF ReadIsCurrent, AllMove
<1>2. CASE /\ w.name \in DOMAIN classes <=> w.name \in DOMAIN classes'
           /\ w.name \in DOMAIN classes => classes'[w.name] = classes[w.name]
  <2>1. Version(w.name)' = Version(w.name)
    BY <1>2 DEF Version
  <2> QED BY <1>1, <1>2, <2>1, SameWishes DEF ReadIsCurrent
<1>3. CASE /\ w.name \in DOMAIN classes' /\ classes'[w.name].version = Version(w.name) + 1
           /\ classes'[w.name].spec \in SpecsOf(w.name)
  <2>1. Version(w.name)' = Version(w.name) + 1
    BY <1>3 DEF Version
  <2> QED BY <1>1, <1>3, <2>1, SameWishes DEF ReadIsCurrent
<1> QED BY <1>1, <1>2, <1>3 DEF Moves

LEMMA RightStaysRight ==
  ASSUME AllMove, NEW w, SpecsOf(w.name) = {w.spec}, RightClass(w)
  PROVE  RightClass(w)'
<1>1. Moves(w.name)
  BY DEF AllMove
<1> QED BY <1>1 DEF Moves, RightClass

(* A node that takes no step of its job stays as it is.                    *)
LEMMA JobPartUnaffected ==
  ASSUME Positive, AllMove, UNCHANGED hw, NEW n \in Nodes, JobPart(n), wishes'[n] = wishes[n],
         got'[n] = got[n], clean'[n] = clean[n], job'[n] = job[n],
         job[n] # "off" => manager'[n] = manager[n]
  PROVE  JobPart(n)'
<1>1. ReadIsCurrent(n)'
  BY ReadStaysCurrent DEF JobPart
<1>2. wishes'[n] \subseteq EveryWish'
  BY SameWishes DEF JobPart
<1>3. SeenTo(n)'
  <2> SUFFICES ASSUME clean[n], job[n] \in {"upsert", "done"},
                      NEW w \in WishesFor(Models(n), manager[n].templates),
                      SpecsOf(w.name) = {w.spec}
               PROVE  RightClass(w)' \/ Pending(n, w)'
    BY SameWishes DEF SeenTo, Models
  <2>1. RightClass(w) \/ Pending(n, w)
    BY DEF JobPart, SeenTo
  <2> QED BY <2>1, RightStaysRight DEF Pending
<1> QED BY <1>1, <1>2, <1>3 DEF JobPart

(* A step of the job of node n, or of its process.                         *)
OfJob(n) ==
  /\ UNCHANGED hw
  /\ DOMAIN job' = Nodes /\ DOMAIN wishes' = Nodes /\ DOMAIN got' = Nodes /\ DOMAIN clean' = Nodes
  /\ \A m \in Nodes \ {n} :
       /\ wishes'[m] = wishes[m] /\ got'[m] = got[m] /\ clean'[m] = clean[m] /\ job'[m] = job[m]
       /\ manager'[m] = manager[m]

LEMMA JobPartStep ==
  ASSUME ClassesInv, AllMove, NEW n \in Nodes, OfJob(n), JobPart(n)'
  PROVE  ClassesInv'
<1>1. \A m \in Nodes \ {n} : JobPart(m)'
  BY JobPartUnaffected DEF ClassesInv, OfJob
<1>2. Positive'
  BY VersionsStayPositive DEF ClassesInv
<1> QED BY <1>1, <1>2 DEF ClassesInv, OfJob

LEMMA SnapshotTaken ==
  ASSUME ClassesInv, NEW n \in Nodes, TakeSnapshot(n), UNCHANGED <<hw, manager>>,
         ManagerFilled(n), manager[n] # None
  PROVE  ClassesInv'
<1>1. AllMove /\ OfJob(n)
  BY UnchangedMoves DEF TakeSnapshot, ClassesInv, OfJob
<1>2. ReadIsCurrent(n)'
  BY <1>1, ReadStaysCurrent DEF TakeSnapshot, ClassesInv, JobPart
<1>3. CASE job' = [job EXCEPT ![n] = "done"] /\ clean' = [clean EXCEPT ![n] = FALSE]
           /\ UNCHANGED wishes
  <2>1. SeenTo(n)' /\ wishes'[n] \subseteq EveryWish'
    BY <1>1, <1>3, SameWishes DEF ClassesInv, JobPart, SeenTo, OfJob
  <2> QED BY <1>1, <1>2, <2>1, JobPartStep DEF JobPart
<1>4. CASE job' = [job EXCEPT ![n] = "upsert"]
           /\ \E U \in UniqueTemplates(IF Models(n) = {} THEN {} ELSE manager[n].templates) :
                wishes' = [wishes EXCEPT ![n] = WishesFor(Models(n), U)]
  <2> DEFINE T == IF Models(n) = {} THEN {} ELSE manager[n].templates
             wanted == WishesFor(Models(n), manager[n].templates)
  <2>1. PICK U \in UniqueTemplates(T) : wishes'[n] = WishesFor(Models(n), U)
    BY <1>4 DEF ClassesInv
  <2>2. wanted \subseteq EveryWish
    BY WantedIsAWish
  <2>3. WishesFor(Models(n), T) = wanted
    BY DEF WishesFor
  <2>4. U \subseteq T
    BY DEF UniqueTemplates
  <2>5. wishes'[n] \subseteq EveryWish'
    BY <1>1, <2>1, <2>2, <2>3, <2>4, WishesGrow, SameWishes DEF OfJob
  <2>6. SeenTo(n)'
    <3> SUFFICES ASSUME NEW w \in wanted, SpecsOf(w.name) = {w.spec} PROVE Pending(n, w)'
      BY <1>1, SameWishes DEF SeenTo, Models, OfJob
    <3>1. \E v \in wishes'[n] : v.name = w.name /\ v.spec = w.spec
      BY <2>1, <2>2, <2>3, OneTemplateIsEnough
    <3> QED BY <1>4, <3>1 DEF Pending, ClassesInv
  <2> QED BY <1>1, <1>2, <2>5, <2>6, JobPartStep DEF JobPart
<1> QED BY <1>3, <1>4 DEF TakeSnapshot

(* A class that is dealt with leaves the wishes.                           *)
LEMMA WishDealtWith ==
  ASSUME ClassesInv, AllMove, NEW n \in Nodes, OfJob(n), NEW w, Logged(n, w),
         UNCHANGED manager, job' = job,
         clean'[n] => clean[n] /\ (SpecsOf(w.name) = {w.spec} => RightClass(w)')
  PROVE  ClassesInv'
<1>1. wishes'[n] = wishes[n] \ {w} /\ got'[n] = None
  BY DEF Logged, ClassesInv
<1>2. ReadIsCurrent(n)'
  BY <1>1 DEF ReadIsCurrent
<1>3. wishes'[n] \subseteq EveryWish'
  BY <1>1, SameWishes DEF OfJob, ClassesInv, JobPart
<1>4. SeenTo(n)'
  <2> SUFFICES ASSUME clean'[n], job[n] \in {"upsert", "done"},
                      NEW v \in WishesFor(Models(n), manager[n].templates),
                      SpecsOf(v.name) = {v.spec}
               PROVE  RightClass(v)' \/ Pending(n, v)'
    BY SameWishes DEF SeenTo, Models, OfJob
  <2>1. RightClass(v) \/ Pending(n, v)
    BY DEF ClassesInv, JobPart, SeenTo
  <2>2. CASE RightClass(v)
    BY <2>2, RightStaysRight
  <2>3. CASE Pending(n, v)
    <3>1. PICK u \in wishes[n] : u.name = v.name /\ u.spec = v.spec
      BY <2>3 DEF Pending
    <3>2. CASE u = w
      BY <3>1, <3>2 DEF RightClass
    <3>3. CASE u # w
      BY <1>1, <2>3, <3>1, <3>3 DEF Pending
    <3> QED BY <3>2, <3>3
  <2> QED BY <2>1, <2>2, <2>3
<1> QED BY <1>2, <1>3, <1>4, JobPartStep DEF JobPart

LEMMA ClassRead ==
  ASSUME ClassesInv, NEW n \in Nodes, NEW w \in wishes[n], GetClass(n, w),
         UNCHANGED <<hw, manager>>
  PROVE  ClassesInv'
<1>1. AllMove /\ OfJob(n) /\ job' = job /\ UNCHANGED classes
  BY UnchangedMoves DEF GetClass, Logged, ClassesInv, OfJob
<1>2. CASE Logged(n, w)
  <2>1. clean'[n] => clean[n] /\ RightClass(w)
    BY <1>2 DEF GetClass, RightClass, ClassesInv, Logged
  <2>2. RightClass(w) => RightClass(w)'
    BY <1>1 DEF RightClass
  <2> QED BY <1>1, <1>2, <2>1, <2>2, WishDealtWith
<1>3. CASE ~ Logged(n, w)
  <2>1. /\ UNCHANGED <<wishes, clean>>
        /\ got'[n] = [wish |-> w, version |-> Version(w.name)]
        /\ w.name \in DOMAIN classes => classes[w.name].spec # w.spec
    BY <1>3 DEF GetClass, Version, ClassesInv
  <2>2. ReadIsCurrent(n)'
    <3>1. w \in EveryWish /\ Version(w.name) \in Nat /\ Version(w.name)' = Version(w.name)
      BY <1>1, VersionIsNat DEF ClassesInv, JobPart, Version
    <3> QED BY <1>1, <2>1, <3>1, SameWishes DEF ReadIsCurrent, OfJob
  <2>3. SeenTo(n)' /\ wishes'[n] \subseteq EveryWish'
    BY <1>1, <2>1, SameWishes
       DEF OfJob, ClassesInv, JobPart, SeenTo, Pending, Models, RightClass
  <2> QED BY <1>1, <2>2, <2>3, JobPartStep DEF JobPart
<1> QED BY <1>2, <1>3

(* Whoever wrote a class since, wrote what the nodes that agree want.      *)
LEMMA ClassPut ==
  ASSUME ClassesInv, NEW n \in Nodes, PutClass(n), UNCHANGED <<hw, manager>>
  PROVE  ClassesInv'
<1>0. PICK w : w = got[n].wish
  OBVIOUS
<1>1. AllMove
  BY WriteMoves, UnchangedMoves DEF PutClass
<1>2. OfJob(n) /\ job' = job /\ Logged(n, w)
  BY <1>0 DEF PutClass, Logged, ClassesInv, OfJob
<1>3. ASSUME Written(n), SpecsOf(w.name) = {w.spec} PROVE RightClass(w)'
  <2>1. CASE got[n].version = Version(w.name)
    BY <1>0, <1>3, <2>1 DEF Written, Put, RightClass
  <2>2. CASE got[n].version # Version(w.name)
    <3>1. /\ got[n].version \in Nat /\ got[n].version <= Version(w.name)
          /\ w.name \in DOMAIN classes => classes[w.name].spec \in SpecsOf(w.name)
      BY <1>0, <2>2 DEF PutClass, ClassesInv, JobPart, ReadIsCurrent
    <3>2. w.name \in DOMAIN classes
      BY <2>2, <3>1 DEF Version
    <3> QED BY <1>0, <1>3, <2>2, <3>1, <3>2 DEF Written, RightClass
  <2> QED BY <2>1, <2>2
<1>4. clean'[n] => clean[n] /\ Written(n)
  BY DEF PutClass, ClassesInv
<1> QED BY <1>1, <1>2, <1>3, <1>4, WishDealtWith

LEMMA JobEnded ==
  ASSUME ClassesInv, NEW n \in Nodes, JobEnds(n), UNCHANGED <<hw, manager>>
  PROVE  ClassesInv'
<1>1. AllMove /\ OfJob(n)
  BY UnchangedMoves DEF JobEnds, ClassesInv, OfJob
<1>2. ReadIsCurrent(n)'
  BY <1>1, ReadStaysCurrent DEF JobEnds, ClassesInv, JobPart
<1>3. SeenTo(n)' /\ wishes'[n] \subseteq EveryWish'
  BY <1>1, SameWishes
     DEF JobEnds, OfJob, ClassesInv, JobPart, SeenTo, Pending, Models, RightClass
<1> QED BY <1>1, <1>2, <1>3, JobPartStep DEF JobPart

LEMMA JobBeginsOrIsLost ==
  ASSUME ClassesInv, NEW n \in Nodes, StartJob(n) \/ LoseJob(n), UNCHANGED hw,
         \A m \in Nodes \ {n} : manager'[m] = manager[m]
  PROVE  ClassesInv'
<1>1. AllMove /\ OfJob(n)
  BY UnchangedMoves DEF StartJob, LoseJob, ClassesInv, OfJob
<1>2. wishes'[n] = {} /\ got'[n] = None /\ job'[n] \in {"snapshot", "off"}
  BY DEF StartJob, LoseJob, ClassesInv
<1>3. JobPart(n)'
  BY <1>2 DEF JobPart, ReadIsCurrent, SeenTo
<1> QED BY <1>1, <1>3, JobPartStep

LEMMA ClassesStep ==
  DiscoveryInv /\ JobInv /\ ClassesInv /\ [StartupNext]_startupVars => ClassesInv' /\ AllMove
<1> SUFFICES ASSUME DiscoveryInv, JobInv, ClassesInv, [StartupNext]_startupVars
             PROVE  ClassesInv' /\ AllMove
  OBVIOUS
<1>1. UNCHANGED hw
  BY HardwareStays
<1>2. ASSUME UNCHANGED classVars, \A m \in Nodes : job[m] # "off" => manager'[m] = manager[m]
      PROVE  ClassesInv' /\ AllMove
  <2>1. AllMove
    BY <1>2, UnchangedMoves DEF classVars
  <2>2. \A m \in Nodes : JobPart(m)'
    BY <1>1, <1>2, <2>1, JobPartUnaffected DEF classVars, ClassesInv
  <2> QED BY <1>2, <2>1, <2>2, VersionsStayPositive DEF classVars, ClassesInv
<1>3. ASSUME NEW p \in Pods, Install(p) \/ InstallerStopped(p)
      PROVE  UNCHANGED classVars /\ UNCHANGED manager
  BY <1>3 DEF Install, InstallerStopped, discoveryVars, processVars
<1>4. ASSUME NEW n \in Nodes, StartPlugin(n) PROVE UNCHANGED classVars /\ UNCHANGED manager
  BY <1>4 DEF StartPlugin
<1>5. ASSUME NEW n \in Nodes, Discover(n) PROVE ClassesInv' /\ AllMove
  <2>1. job[n] = "off" /\ \A m \in Nodes \ {n} : manager'[m] = manager[m]
    BY <1>5, StepStartsLate DEF Discover
  <2>2. CASE StartJob(n)
    BY <1>1, <2>1, <2>2, JobBeginsOrIsLost, UnchangedMoves DEF StartJob
  <2>3. CASE UNCHANGED classVars
    BY <1>2, <2>1, <2>3
  <2> QED BY <1>5, <2>2, <2>3 DEF Discover
<1>6. ASSUME NEW n \in Nodes, CreateClasses(n) PROVE ClassesInv' /\ AllMove
  <2>1. manager' = manager /\ ClassStep(n)
    BY <1>6 DEF CreateClasses
  <2>2. ManagerFilled(n) /\ manager[n] # None
    BY <2>1, ClassStepJob DEF DiscoveryInv, NodeInv, JobInv, JobWhileUp
  <2>3. ClassesInv'
    BY <1>1, <2>1, <2>2, SnapshotTaken, ClassRead, ClassPut, JobEnded DEF ClassStep
  <2>4. AllMove
    BY <2>1, WriteMoves, UnchangedMoves
       DEF ClassStep, TakeSnapshot, GetClass, PutClass, JobEnds
  <2> QED BY <2>3, <2>4
<1>7. ASSUME NEW n \in Nodes, PluginEnds(n) PROVE ClassesInv' /\ AllMove
  <2>1. \A m \in Nodes \ {n} : manager'[m] = manager[m]
    BY <1>7 DEF PluginEnds, ExitPlugin, JobInv
  <2> QED BY <1>1, <1>7, <2>1, JobBeginsOrIsLost, UnchangedMoves DEF PluginEnds, LoseJob
<1> QED
  BY <1>2, <1>3, <1>4, <1>5, <1>6, <1>7
     DEF StartupNext, PluginRuns, startupVars, discoveryVars, processVars

LEMMA ClassesHold == StartupSpec => [](DiscoveryInv /\ JobInv /\ ClassesInv)
<1>1. StartupInit => ClassesInv
  BY ClassesInitHold
<1> QED BY <1>1, ClassesStep, DiscoveryHolds, PTL DEF StartupSpec

-----------------------------------------------------------------------------

(* A node whose job ended with nothing but lost races finds every class    *)
(* the nodes agree on as it wants it.                                      *)
THEOREM FinishedIsServed == StartupSpec => []FinishedNodeServed
<1>1. JobInv /\ ClassesInv => FinishedNodeServed
  BY DEF JobInv, ClassesInv, JobPart, SeenTo, Pending, FinishedNodeServed
<1> QED BY <1>1, ClassesHold, PTL

(* A class that is as the nodes want it is never written again.            *)
THEOREM WantedClassesStay == StartupSpec => RightClassesStay
<1>1. AllMove =>
        [\A name \in DOMAIN classes :
           classes'[name] # classes[name] => SpecsOf(name) # {classes[name].spec}]_classVars
  BY DEF AllMove, Moves
<1> QED BY <1>1, ClassesStep, ClassesHold, PTL DEF StartupSpec, RightClassesStay
=============================================================================
