---------------------------- MODULE DeviceClasses ----------------------------
(***************************************************************************)
(* CreatePredefinedDeviceClasses: every node, after discovery, creates or  *)
(* updates the DeviceClasses of its models and templates in the API        *)
(* server, with a read and a write for each and beside the other nodes.    *)
(* Source: cmd/ascend-dra-kubeletplugin/state.go.                          *)
(*                                                                         *)
(* The API server is external: it creates what is not there, and updates   *)
(* what has the resource version that was read.  Errors are logged, and a  *)
(* class that was not written waits for the next start of a node.          *)
(***************************************************************************)
EXTENDS Discovery

CONSTANTS
  SafeChip,     \* toSafeModelName of the chip names
  OldClasses,   \* classes that an earlier release has left
  MaxVersion    \* bound: writes of one class

ASSUME DeviceClassesAssumption ==
  /\ MaxVersion \in Nat
  /\ \A name \in DOMAIN OldClasses : OldClasses[name].version \in 1 .. MaxVersion

VARIABLES
  classes,   \* API server: name to specification and resource version
  job,       \* where a node's CreatePredefinedDeviceClasses is
  wishes,    \* classes it has still to see to
  got,       \* the class under way and the version read, 0 for not found
  clean      \* for the properties: no failure of the API since it began

classVars == <<classes, job, wishes, got, clean>>

-----------------------------------------------------------------------------
(* The classes a node wants *)

SafeModel(model) == [model EXCEPT ![1] = SafeChip[@]]

Wish(name, order, kind, model, size, template) ==
  [name |-> name, order |-> order,
   spec |-> [kind |-> kind, model |-> model, size |-> size, template |-> template]]

FullCardClass(model) == Wish(<<SafeModel(model)>>, 1, "NPU", model, 0, "")

MemoryClass(model, t) ==
  Wish(<<SafeModel(model), "mem", t.memory>>, 2, "memory", model, t.memory, t.name)

AICoreClass(model, t) ==
  Wish(<<SafeModel(model), "aicore", t.aicore>>, 3, "cores", model, t.aicore, t.name)

SameMemory(t, u) == t.memory = u.memory  \* mutant: the AICOREs do not count

SameSizes(t, u) == t.aicore = u.aicore /\ t.memory = u.memory

(* One template for every pair of sizes, whichever is met first.           *)
UniqueTemplates(templates) ==
  {U \in SUBSET templates : \A t \in templates :
     \E u \in U : {v \in U : SameSizes(t, v)} = {u}}

WishesFor(models, templates) ==
  {FullCardClass(m) : m \in models}
    \cup {MemoryClass(m, t) : m \in models, t \in templates}
    \cup {AICoreClass(m, t) : m \in models, t \in templates}

Models(n) == {manager[n].models[l] : l \in DOMAIN manager[n].models}

-----------------------------------------------------------------------------
(* The job is started by NewDeviceState: before the process serves when    *)
(* there is a checkpoint, in a goroutine otherwise.                        *)
StartJob(n) ==
  /\ job' = [job EXCEPT ![n] = "snapshot"]
  /\ wishes' = [wishes EXCEPT ![n] = {}]
  /\ got' = [got EXCEPT ![n] = None]
  /\ clean' = [clean EXCEPT ![n] = TRUE]
  /\ UNCHANGED classes

LoseJob(n) ==
  /\ job' = [job EXCEPT ![n] = "off"]
  /\ wishes' = [wishes EXCEPT ![n] = {}]
  /\ got' = [got EXCEPT ![n] = None]
  /\ clean' = [clean EXCEPT ![n] = FALSE]
  /\ UNCHANGED classes

(* A client that cannot be made ends the job.                              *)
TakeSnapshot(n) ==
  /\ job[n] = "snapshot"
  /\ \/ /\ Fail("api")
        /\ job' = [job EXCEPT ![n] = "done"]
        /\ clean' = [clean EXCEPT ![n] = FALSE]
        /\ UNCHANGED wishes
     \/ /\ Works
        /\ \E U \in UniqueTemplates(IF Models(n) = {} THEN {} ELSE manager[n].templates) :
             wishes' = [wishes EXCEPT ![n] = WishesFor(Models(n), U)]
        /\ job' = [job EXCEPT ![n] = "upsert"]
        /\ UNCHANGED clean
  /\ UNCHANGED <<classes, got>>

(* Full-card classes first, and the AICORE class of a model and a template *)
(* right after its memory class; maps give the rest in any order.          *)
SamePair(v, w) == v.spec.model = w.spec.model /\ v.spec.template = w.spec.template

Begun(n) ==
  {w \in wishes[n] : w.order = 3 /\ \A v \in wishes[n] : v.order = 2 => ~ SamePair(v, w)}

MayComeNext(n, w) ==
  /\ \A v \in wishes[n] : w.order > 1 => v.order > 1
  /\ w \in Begun(n) \/ (Begun(n) = {} /\ w.order < 3)

Logged(n, w) ==
  /\ wishes' = [wishes EXCEPT ![n] = @ \ {w}]
  /\ got' = [got EXCEPT ![n] = None]

GetClass(n, w) ==
  /\ job[n] = "upsert" /\ got[n] = None /\ w \in wishes[n] /\ MayComeNext(n, w)
  /\ \/ Fail("api") /\ Logged(n, w) /\ clean' = [clean EXCEPT ![n] = FALSE]
     \/ /\ Works /\ UNCHANGED clean
        /\ \/ /\ w.name \notin DOMAIN classes
              /\ got' = [got EXCEPT ![n] = [wish |-> w, version |-> 0]] /\ UNCHANGED wishes
           \/ w.name \in DOMAIN classes /\ classes[w.name].spec = w.spec /\ Logged(n, w)
           \/ /\ w.name \in DOMAIN classes /\ classes[w.name].spec # w.spec
              /\ got' = [got EXCEPT ![n] = [wish |-> w, version |-> classes[w.name].version]]
              /\ UNCHANGED wishes
  /\ UNCHANGED <<classes, job>>

Version(name) == IF name \in DOMAIN classes THEN classes[name].version ELSE 0

Put(w, version) ==
  classes' = [name \in DOMAIN classes \cup {w.name} |->
                IF name = w.name THEN [spec |-> w.spec, version |-> version]
                ELSE classes[name]]

WrittenOver(n) ==  \* mutant: an update without the resource version
  LET w == got[n].wish IN Put(w, Version(w.name) + 1)

Written(n) ==
  LET w == got[n].wish
  IN IF got[n].version = Version(w.name) THEN Put(w, got[n].version + 1)
     ELSE UNCHANGED classes

(* AlreadyExists and Conflict are logged like any error; a write that      *)
(* fails may have been done.                                               *)
PutClass(n) ==
  /\ job[n] = "upsert" /\ got[n] # None /\ got[n].version < MaxVersion
  /\ \/ Works /\ Written(n) /\ UNCHANGED clean
     \/ /\ Fail("api") /\ (Written(n) \/ UNCHANGED classes)
        /\ clean' = [clean EXCEPT ![n] = FALSE]
  /\ Logged(n, got[n].wish)
  /\ UNCHANGED job

JobEnds(n) ==
  /\ job[n] = "upsert" /\ wishes[n] = {}
  /\ job' = [job EXCEPT ![n] = "done"]
  /\ UNCHANGED <<classes, wishes, got, clean>>

ClassStep(n) ==
  \/ TakeSnapshot(n) \/ PutClass(n)
  \/ \E w \in wishes[n] : GetClass(n, w)
  \/ JobEnds(n) /\ Works

ClassesInit ==
  /\ classes = OldClasses
  /\ job = [n \in Nodes |-> "off"]
  /\ wishes = [n \in Nodes |-> {}]
  /\ got = [n \in Nodes |-> None]
  /\ clean = [n \in Nodes |-> FALSE]

-----------------------------------------------------------------------------
(* Properties *)

(* What the nodes may come to want of a class; one thing if they agree.    *)
EveryModel(n) ==
  {<<Machine(n).chip>>} \cup {<<Machine(n).chip, t>> : t \in TemplateTypes}

EveryWish ==
  UNION {WishesFor(EveryModel(n), Templates(n)) : n \in {m \in Nodes : Templates(m) # None}}

SpecsOf(name) == {w.spec : w \in {v \in EveryWish : v.name = name}}

RightClass(w) == w.name \in DOMAIN classes /\ classes[w.name].spec = w.spec

(* A node whose job has ended, with no failure but lost races to create or *)
(* update a class, finds its classes as it wants them: a loser's error is  *)
(* only logged because the winner wrote the same.  Templates that share a  *)
(* size share the name of a class, and are left out: they overwrite it.    *)
FinishedNodeServed ==
  \A n \in Nodes : job[n] = "done" /\ clean[n] =>
    \A w \in WishesFor(Models(n), manager[n].templates) :
      RightClass(w) \/ SpecsOf(w.name) # {w.spec}

(* "idempotently creates/updates": a class that is as the nodes want it is *)
(* not written again, however often and beside whom they start.            *)
RightClassesStay ==
  [][\A name \in DOMAIN classes :
       classes'[name] # classes[name] => SpecsOf(name) # {classes[name].spec}]_classVars
=============================================================================
