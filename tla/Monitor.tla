-------------------------------- MODULE Monitor --------------------------------
(***************************************************************************)
(* The metrics monitor (internal/monitor) and what it reads: Claim         *)
(* lifetimes, kubelet's rows of Claims and pods, the shared memory files   *)
(* of the containers, and the hardware.  Three goroutines run beside each  *)
(* other: pollHost queries the hardware, run samples, and a scrape answers *)
(* from the last published observation.  The scrape reads the tokens of    *)
(* the Claims without the lock under which Prepare and Unprepare run.      *)
(*                                                                         *)
(* A domain is a Claim on a card.  Values are not modelled: a reading is   *)
(* the time at which it was really taken and the lifetime it belongs to.   *)
(* The clock is a natural number; 0 is Go's zero time.                     *)
(***************************************************************************)
EXTENDS Integers, FiniteSets

CONSTANTS
  Claims, Cards, Pods,
  CardsOf,      \* the cards of a Claim
  UsedBy,       \* the cards whose devices a pod's container references
  Restored,     \* Claims that were prepared and running before this process
  Unsupported,  \* Claims whose prepared edits preparedCoreQuota rejects
  Interval,     \* Config.Interval
  MaxAge,       \* Config.MaxAge
  MaxClock,     \* bound: the clock
  MaxTokens,    \* bound: lifetimes
  MaxEnds,      \* bound: lifetimes that end
  NoClaim, NoPod

ASSUME ConfigAssumption ==
  /\ Interval \in Nat \ {0} /\ MaxAge \in Nat /\ Interval <= MaxAge
  /\ MaxClock \in Nat \ {0} /\ MaxTokens \in Nat /\ MaxEnds \in Nat
  /\ CardsOf \in [Claims -> SUBSET Cards] /\ UsedBy \in [Pods -> SUBSET Cards]
  /\ Unsupported \subseteq Claims /\ Restored \subseteq Claims
  /\ IsFiniteSet(Restored) /\ Cardinality(Restored) <= MaxTokens /\ NoClaim \notin Claims
  /\ IsFiniteSet(Pods) /\ NoPod \notin Pods

VARIABLES
  now,                            \* the clock
  token, last, ending, ran, left, \* lifetimes, see below
  rows, file,                     \* kubelet's rows; the shared memory files
  poll, results,                  \* pollHost and its channel
  ticked, run, host, owners, short, \* run and the Monitor's own fields
  obs, current,                   \* the observation being built; the published
  scrape,                         \* Collect
  close                           \* Close

lifeVars   == <<token, last, ending, ran, left>>
podVars    == <<rows, file>>
pollVars   == <<poll, results>>
runVars    == <<ticked, run, host, owners, short, obs, current>>
vars == <<now, lifeVars, podVars, pollVars, runVars, scrape, close>>

Domains == {d \in Claims \X Cards : d[2] \in CardsOf[d[1]]}
Tokens  == 0 .. MaxTokens
Times   == 0 .. MaxClock

(* hostResult: the cards that a query reported and those of them with a    *)
(* valid utilization, its stamp, and the time at which the values may have *)
(* been read.  A query that fails for some cards still reports the others; *)
(* without a card there may be an error or no hardware.                    *)
HostResult == [at : Times, read : Times, cards : SUBSET Cards,
               util : SUBSET Cards]

NoResult == [at |-> 0, read |-> 0, cards |-> {}, util |-> {}]

(* domainObservation and the samples that point to it.  read and life are  *)
(* the time and the lifetime of the memory that was read.                  *)
Observed ==
  [token : Tokens, pod : Pods \cup {NoPod}, util : BOOLEAN, read : Times,
   life : Tokens, state : {"reading", "pending", "ready", "unmapped",
                           "ambiguous", "invalid", "stale", "unsupported"}]

(* observation: at, the age of the ownership lookup (workAt) and of the    *)
(* hardware result (hostAt, 0 when none is used); the other two are the    *)
(* times at which kubelet and the hardware were really read.               *)
NoObservation ==
  [at |-> 0, workAt |-> 0, listed |-> 0, hostAt |-> 0, hostRead |-> 0,
   cards |-> {}, util |-> {}, domains |-> <<>>]

(* Tokens are rebuilt at startup, in the order in which a map is walked,   *)
(* for the Claims in the checkpoint; their containers have run on.         *)
Init ==
  /\ now = 1
  /\ last = Cardinality(Restored) /\ ending = NoClaim /\ left = {}
  /\ token \in {t \in [Claims -> 0 .. last] :
                  /\ \A c \in Claims : t[c] = 0 <=> c \notin Restored
                  /\ \A c, d \in Restored : t[c] = t[d] => c = d}
  /\ ran \in {r \in [1 .. MaxTokens -> Pods \cup {NoPod}] :
                \A t \in 1 .. MaxTokens : r[t] = NoPod <=> t > last}
  /\ rows = [c \in Claims |-> IF c \in Restored THEN {ran[token[c]]} ELSE {}]
  /\ file = [d \in Domains |->
               [st |-> IF d[1] \in Restored THEN "ready" ELSE "absent",
                life |-> token[d[1]]]]
  /\ poll = [pc |-> "query", at |-> 1]
  /\ results = {}
  /\ ticked = FALSE
  /\ run = [pc |-> "select", started |-> 0]
  /\ host = NoResult
  /\ owners = [at |-> 0, listed |-> 0, rows |-> [c \in Claims |-> {}]]
  /\ short = [d \in Domains |-> 0]
  /\ obs = NoObservation /\ current = NoObservation
  /\ scrape = [pc |-> "idle", seen |-> NoObservation, at |-> 0,
               versions |-> <<>>, ended |-> {}]
  /\ close = "open"

-----------------------------------------------------------------------------
(* The environment.  The clock also drives the ticker, whose channel holds *)
(* one tick.                                                               *)
Tick ==
  /\ now < MaxClock
  /\ now' = now + 1
  /\ ticked' = (ticked \/ (now' - 1) % Interval = 0)
  /\ UNCHANGED <<lifeVars, podVars, pollVars, run, host, owners, short, obs,
                 current, scrape, close>>

(* Lifetimes, as ClaimLifetimes promises them.  ran records the pod of     *)
(* each; ending is the Claim whose Unprepare holds the state lock.         *)
Lifetimes == INSTANCE ClaimLifetimes

(* Prepare has returned: the Claim has a new token and its pod may start.  *)
Prepared(c, p) ==
  /\ ending = NoClaim /\ token[c] = 0 /\ last < MaxTokens
  /\ last' = last + 1
  /\ token' = [token EXCEPT ![c] = last']
  /\ Lifetimes!Begin({c})
  /\ ran' = [ran EXCEPT ![last'] = p]
  /\ UNCHANGED <<now, ending, left, podVars, pollVars, runVars, scrape, close>>

(* Unprepare takes the lock and ends the lifetime ...                      *)
UnprepareEnds(c) ==
  /\ ending = NoClaim /\ last - Cardinality({b \in Claims : token[b] # 0}) < MaxEnds
  /\ token' = [token EXCEPT ![c] = 0]
  /\ Lifetimes!End(c)
  /\ ending' = c
  /\ UNCHANGED <<now, ran, left, podVars, pollVars, runVars, scrape, close>>

(* ... and removes the Claim's directory before it unlocks and returns.    *)
(* RemoveAll may fail: left collects the lifetimes that stay in the file.  *)
FilesKept(c, removed) ==  \* mutant: the directory is not removed
  UNCHANGED <<file, left>>

FilesRemoved(c, removed) ==
  IF removed
  THEN /\ file' = [d \in Domains |-> IF d[1] = c
                                     THEN [st |-> "absent", life |-> 0]
                                     ELSE file[d]]
       /\ UNCHANGED left
  ELSE /\ left' = (left \cup {file[d].life : d \in {e \in Domains : e[1] = c}}) \ {0}
       /\ UNCHANGED file

UnprepareReturns(removed) ==
  /\ ending # NoClaim
  /\ FilesRemoved(ending, removed)
  /\ ending' = NoClaim
  /\ UNCHANGED <<now, token, last, ran, rows, pollVars, runVars, scrape, close>>

(* PodResources lists the pod of a lifetime from some time on; its row may *)
(* outlive the lifetime until kubelet has forgotten the pod.               *)
RowAppears(c) ==
  /\ token[c] # 0 /\ ran[token[c]] \notin rows[c]
  /\ rows' = [rows EXCEPT ![c] = @ \cup {ran[token[c]]}]
  /\ UNCHANGED <<now, lifeVars, file, pollVars, runVars, scrape, close>>

RowDisappears(c, p) ==
  /\ p \in rows[c] /\ (token[c] # 0 => ran[token[c]] # p)
  /\ rows' = [rows EXCEPT ![c] = @ \ {p}]
  /\ UNCHANGED <<now, lifeVars, file, pollVars, runVars, scrape, close>>

(* The core runtime in the container creates, extends and initializes its  *)
(* file; a file that is still there is used as it is.                      *)
Grown == [absent |-> "short", short |-> "pending", pending |-> "ready"]

FileGrows(d) ==
  /\ token[d[1]] # 0 /\ file[d].st \in DOMAIN Grown
  /\ file' = [file EXCEPT ![d] =
                [st |-> Grown[@.st],
                 life |-> IF @.st = "absent" THEN token[d[1]] ELSE @.life]]
  /\ UNCHANGED <<now, lifeVars, rows, pollVars, runVars, scrape, close>>

(* Unprepare of a Claim without an entry only repeats the removal.  The    *)
(* same happens to a directory when a Prepare of the Claim fails.          *)
UnprepareAgain(c) ==
  /\ ending = NoClaim /\ token[c] = 0
  /\ ending' = c
  /\ UNCHANGED <<now, token, last, ran, left, podVars, pollVars, runVars, scrape,
                 close>>

-----------------------------------------------------------------------------
(* pollHost: one query at a time, which may block in the SDK for any time. *)
(* Its values may be as old as its start, and the start is their stamp.    *)
Cancelled == close # "open"

StampWhenDone(started) == now  \* mutant: the time of the answer
StampExpiry(started) == started + MaxAge  \* mutant: the time of expiry
Stamp(started) == started

(* The result is sent as soon as the channel has room.                     *)
HostReturns(cards, util) ==
  /\ poll.pc = "query" /\ results = {}
  /\ results' = {[at |-> Stamp(poll.at), read |-> poll.at,
                  cards |-> cards, util |-> util]}
  /\ poll' = [pc |-> "wait", at |-> now]
  /\ UNCHANGED <<now, lifeVars, podVars, runVars, scrape, close>>

(* The timer was started when the result was sent.                         *)
PollAgain ==
  /\ poll.pc = "wait" /\ now - poll.at >= Interval
  /\ poll' = [pc |-> "query", at |-> now]
  /\ UNCHANGED <<now, lifeVars, podVars, results, runVars, scrape, close>>

(* At the timer, or when a query that was under way at last returns.       *)
PollStops(pc) ==
  /\ Cancelled /\ poll.pc = pc
  /\ poll' = [pc |-> "done", at |-> 0]
  /\ UNCHANGED <<now, lifeVars, podVars, results, runVars, scrape, close>>

-----------------------------------------------------------------------------
(* run: sampling.  An error without a card leaves the last result as it    *)
(* is.  refresh starts a round unless the last one started less than       *)
(* Interval ago.                                                           *)
Throttled == run.started # 0 /\ now - run.started < Interval

Refresh ==
  run' = IF Throttled THEN run ELSE [pc |-> "list", started |-> now]

ReceiveResult ==
  /\ run.pc = "select" /\ results # {}
  /\ results' = {}
  /\ \E r \in results : host' \in {r} \cup (IF r.cards = {} THEN {host} ELSE {})
  /\ Refresh
  /\ UNCHANGED <<now, lifeVars, podVars, poll, ticked, owners, short, obs,
                 current, scrape, close>>

ReceiveTickAfterHost ==  \* mutant: rounds wait for the first hardware result
  /\ run.pc = "select" /\ ticked /\ host.at # 0
  /\ ticked' = FALSE
  /\ Refresh
  /\ UNCHANGED <<now, lifeVars, podVars, pollVars, host, owners, short, obs,
                 current, scrape, close>>

ReceiveTick ==
  /\ run.pc = "select" /\ ticked
  /\ ticked' = FALSE
  /\ Refresh
  /\ UNCHANGED <<now, lifeVars, podVars, pollVars, host, owners, short, obs,
                 current, scrape, close>>

RunStopsLast ==  \* mutant: Close waits for the hardware query
  /\ run.pc = "select" /\ Cancelled /\ poll.pc = "done"
  /\ run' = [run EXCEPT !.pc = "done"]
  /\ UNCHANGED <<now, lifeVars, podVars, pollVars, ticked, host, owners,
                 short, obs, current, scrape, close>>

RunStops ==
  /\ run.pc = "select" /\ Cancelled
  /\ run' = [run EXCEPT !.pc = "done"]
  /\ UNCHANGED <<now, lifeVars, podVars, pollVars, ticked, host, owners,
                 short, obs, current, scrape, close>>

(* Resolve: the consumers of every Claim, by kubelet's rows.               *)
Resolve == [c \in Claims |-> rows[c]]

(* Resolve within its timeout.  An answer is stored with the start of the  *)
(* round, and without one the last answer is used on.                      *)
OwnersListed ==
  owners' = [at |-> run.started, listed |-> run.started, rows |-> Resolve]

ListWorkloads(answered) ==
  /\ run.pc = "list"
  /\ IF answered
     THEN now - run.started <= Interval /\ ~Cancelled /\ OwnersListed
     ELSE UNCHANGED owners
  /\ run' = [run EXCEPT !.pc = "snapshot"]
  /\ UNCHANGED <<now, lifeVars, podVars, pollVars, ticked, host, short, obs,
                 current, scrape, close>>

(* The cards whose last hardware result is fresh enough for this round.    *)
Hosts ==
  IF host.at # 0 /\ run.started - host.at <= MaxAge THEN host.cards ELSE {}

Owner(c) == IF Cardinality(owners.rows[c]) = 1
            THEN CHOOSE p \in Pods : owners.rows[c] = {p} ELSE NoPod

(* The state of a domain that is not read, or "reading".                   *)
MappedState(d) ==
  LET c == d[1]
      k == d[2]
  IN  IF c \in Unsupported THEN "unsupported"
      ELSE IF owners.at = 0 \/ run.started - owners.at > MaxAge THEN "stale"
      ELSE IF owners.rows[c] = {} THEN "unmapped"
      ELSE IF Owner(c) = NoPod THEN "ambiguous"
      ELSE IF k \notin UsedBy[Owner(c)] THEN "unmapped"
      ELSE IF k \notin Hosts THEN "stale"
      ELSE "reading"

CollideNever(d, e) == FALSE  \* mutant: equal labels are not noticed

(* Two domains whose samples would have the same labels.                   *)
Collide(d, e) == d # e /\ d[2] = e[2] /\ Owner(d[1]) = Owner(e[1])

ObservedState(d, D) ==
  IF /\ MappedState(d) = "reading"
     /\ \E e \in D : MappedState(e) = "reading" /\ Collide(d, e)
  THEN "ambiguous" ELSE MappedState(d)

(* The token of a Claim, 0 when it is not prepared: no lock is taken.      *)
MetricsGeneration(c) == token[c]

MetricsSnapshot == {d \in Domains : MetricsGeneration(d[1]) # 0}

(* metricsSnapshot takes the state lock; then observeDomains joins what    *)
(* was collected so far.  Domains of one Claim on one card are one.        *)
Snapshot ==
  /\ run.pc = "snapshot" /\ ending = NoClaim
  /\ LET D == MetricsSnapshot IN
     obs' = [at |-> run.started, workAt |-> owners.at, listed |-> owners.listed,
             hostAt |-> IF Hosts = {} THEN 0 ELSE host.at,
             hostRead |-> IF Hosts = {} THEN 0 ELSE host.read,
             cards |-> Hosts, util |-> Hosts \cap host.util,
             domains |-> [d \in D |->
               [token |-> MetricsGeneration(d[1]), pod |-> Owner(d[1]),
                util |-> d[2] \in Hosts \cap host.util, read |-> 0, life |-> 0,
                state |-> ObservedState(d, D)]]]
  /\ run' = [run EXCEPT !.pc = "read"]
  /\ short' = [d \in Domains |->
                 IF d \in DOMAIN obs'.domains /\ obs'.domains[d].state = "reading"
                 THEN short[d] ELSE 0]
  /\ UNCHANGED <<now, lifeVars, podVars, pollVars, ticked, host, owners,
                 current, scrape, close>>

(* readMemory and the grace of a file that is too short.  A file that is   *)
(* ready may still be refused (slots changed during both reads).           *)
FirstShort(d) == IF short[d] = 0 THEN run.started ELSE short[d]

ReadStates(d) ==
  CASE file[d].st = "short" ->
         {IF run.started - FirstShort(d) < Interval THEN "pending" ELSE "invalid"}
    [] file[d].st = "ready" -> {"ready", "invalid"}
    [] OTHER -> {"pending"}

ReadDomain(d, state) ==
  /\ run.pc = "read" /\ d \in DOMAIN obs.domains
  /\ obs.domains[d].state = "reading" /\ state \in ReadStates(d)
  /\ obs' = [obs EXCEPT !.domains[d] =
               IF state = "ready"
               THEN [@ EXCEPT !.state = state, !.read = now, !.life = file[d].life]
               ELSE [@ EXCEPT !.state = state]]
  /\ short' = [short EXCEPT ![d] = IF file[d].st = "short" THEN FirstShort(d) ELSE 0]
  /\ UNCHANGED <<now, lifeVars, podVars, pollVars, ticked, run, host, owners,
                 current, scrape, close>>

Publish ==
  /\ run.pc = "read"
  /\ \A d \in DOMAIN obs.domains : obs.domains[d].state # "reading"
  /\ current' = obs /\ obs' = NoObservation
  /\ run' = [run EXCEPT !.pc = "select"]
  /\ UNCHANGED <<now, lifeVars, podVars, pollVars, ticked, host, owners, short,
                 scrape, close>>

-----------------------------------------------------------------------------
(* Collect: copy the published observation, read the clock, read the token *)
(* of every observed Claim once, and answer.  The clock is read at once: a *)
(* later reading only hides more.                                          *)
ScrapeStarts ==
  /\ scrape.pc = "idle" /\ close \in {"open", "cancelled"}
  /\ scrape' = [pc |-> "tokens", seen |-> current, at |-> now, versions |-> <<>>,
                ended |-> (1 .. last) \ {token[c] : c \in Claims}]
  /\ UNCHANGED <<now, lifeVars, podVars, pollVars, runVars, close>>

Seen == DOMAIN scrape.seen.domains
Unread == {d[1] : d \in Seen} \ DOMAIN scrape.versions

ScrapeReadsToken(c) ==
  /\ scrape.pc = "tokens" /\ c \in Unread
  /\ scrape' = [scrape EXCEPT !.versions =
                  [e \in DOMAIN @ \cup {c} |-> IF e = c THEN MetricsGeneration(c) ELSE @[e]]]
  /\ UNCHANGED <<now, lifeVars, podVars, pollVars, runVars, close>>

Answered == scrape.pc = "tokens" /\ Unread = {}

ScrapeReturns ==
  /\ Answered
  /\ scrape' = [pc |-> "idle", seen |-> NoObservation, at |-> 0,
                versions |-> <<>>, ended |-> {}]
  /\ UNCHANGED <<now, lifeVars, podVars, pollVars, runVars, close>>

(* What the answer shows.                                                  *)
Fresh(at) == scrape.at - at <= MaxAge

WorkloadFresh == scrape.seen.workAt # 0 /\ Fresh(scrape.seen.workAt)

CurrentAlways(d) == TRUE  \* mutant: the answer does not look at tokens

Current(d) == scrape.versions[d[1]] = scrape.seen.domains[d].token

Sampled(d) == /\ scrape.seen.domains[d].state = "ready"
              /\ WorkloadFresh /\ Current(d)

ShownMemory == {d \in Seen : Sampled(d) /\ Fresh(scrape.seen.at)}

ShownUtil == {d \in Seen : /\ Sampled(d) /\ scrape.seen.domains[d].util
                           /\ Fresh(scrape.seen.hostAt)}

ShownHosts == {k \in scrape.seen.cards : Fresh(scrape.seen.hostAt)}

(* A domain is counted while its Claim is prepared.                        *)
Counted == {d \in Seen : scrape.versions[d[1]] # 0}

CountedByAge(d) ==  \* mutant: the age of the ownership is not looked at
  IF ~Fresh(scrape.seen.at) \/ ~Current(d)
  THEN "stale" ELSE scrape.seen.domains[d].state

CountedState(d) ==
  IF \/ ~Fresh(scrape.seen.at) \/ ~Current(d)
     \/ ~WorkloadFresh /\ scrape.seen.domains[d].state # "unsupported"
  THEN "stale" ELSE scrape.seen.domains[d].state

-----------------------------------------------------------------------------
(* Close: cancel, stop the server once no scrape runs, wait for run; all   *)
(* within the time of the caller.                                          *)
CloseCancels ==
  /\ close = "open" /\ close' = "cancelled"
  /\ UNCHANGED <<now, lifeVars, podVars, pollVars, runVars, scrape>>

CloseShutsDown ==
  /\ close = "cancelled" /\ close' = "shut"
  /\ UNCHANGED <<now, lifeVars, podVars, pollVars, runVars, scrape>>

CloseReturns ==
  /\ close = "shut" /\ scrape.pc = "idle" /\ run.pc = "done"
  /\ close' = "closed"
  /\ UNCHANGED <<now, lifeVars, podVars, pollVars, runVars, scrape>>

CloseTimesOut ==
  /\ close = "shut" /\ close' = "expired"
  /\ UNCHANGED <<now, lifeVars, podVars, pollVars, runVars, scrape>>

-----------------------------------------------------------------------------
Lives ==
  \/ \E c \in Claims, p \in Pods : Prepared(c, p)
  \/ \E c \in Claims : UnprepareEnds(c) \/ UnprepareAgain(c)
  \/ \E removed \in BOOLEAN : UnprepareReturns(removed)

Kubelet ==
  \/ \E c \in Claims : RowAppears(c)
  \/ \E c \in Claims, p \in Pods : RowDisappears(c, p)

Files == \E d \in Domains : FileGrows(d)

Hardware ==
  \/ \E cards \in SUBSET Cards : \E util \in SUBSET cards : HostReturns(cards, util)
  \/ PollStops("query")

Poll == PollAgain \/ PollStops("wait")

Run ==
  \/ ReceiveResult \/ ReceiveTick \/ RunStops
  \/ \E answered \in BOOLEAN : ListWorkloads(answered)
  \/ Snapshot
  \/ \E d \in Domains, state \in {"pending", "ready", "invalid"} :
       ReadDomain(d, state)
  \/ Publish

Scrape ==
  \/ ScrapeStarts \/ ScrapeReturns
  \/ \E c \in Claims : ScrapeReadsToken(c)

Close == CloseCancels \/ CloseShutsDown \/ CloseReturns \/ CloseTimesOut

Work == Tick \/ Lives \/ Kubelet \/ Files \/ Hardware \/ Poll \/ Run \/ Scrape

Next == Work \/ Close

Spec == Init /\ [][Next]_vars

(* Before Close.  Close only stops goroutines and fails lookups, which may *)
(* fail anyway, so no answer is possible after it that is not before.      *)
OpenSpec == Init /\ [][Work]_vars

(* The goroutines run and time passes; Unprepare gives the lock back, and  *)
(* a waiting goroutine gets it in the end although others ask for it again *)
(* and again (Go's mutex hands itself to a waiter it has starved).  The    *)
(* choice among ready cases of a select needs no fairness: the clock       *)
(* bounds the others.  A query of the hardware may block for ever.         *)
FairSpec ==
  /\ Spec
  /\ WF_vars(Tick) /\ WF_vars(Poll) /\ WF_vars(Run) /\ SF_vars(Snapshot)
  /\ WF_vars(\E removed \in BOOLEAN : UnprepareReturns(removed))
  /\ WF_vars(ScrapeReturns \/ \E c \in Claims : ScrapeReadsToken(c))
  /\ WF_vars(CloseShutsDown) /\ WF_vars(CloseReturns)

-----------------------------------------------------------------------------
Observation ==
  [at : Times, workAt : Times, listed : Times, hostAt : Times, hostRead : Times,
   cards : SUBSET Cards, util : SUBSET Cards,
   domains : UNION {[D -> Observed] : D \in SUBSET Domains}]

(* Every variable has its type.                                            *)
MonitorTypeOK ==
  /\ now \in Times \ {0}
  /\ token \in [Claims -> Tokens] /\ last \in Tokens
  /\ ending \in Claims \cup {NoClaim}
  /\ ran \in [1 .. MaxTokens -> Pods \cup {NoPod}] /\ left \subseteq Tokens
  /\ rows \in [Claims -> SUBSET Pods]
  /\ file \in [Domains -> [st : {"absent", "short", "pending", "ready"},
                           life : Tokens]]
  /\ poll \in [pc : {"query", "wait", "done"}, at : Times]
  /\ results \subseteq HostResult /\ host \in HostResult
  /\ ticked \in BOOLEAN
  /\ run \in [pc : {"select", "list", "snapshot", "read", "done"},
              started : Times]
  /\ owners \in [at : Times, listed : Times, rows : [Claims -> SUBSET Pods]]
  /\ short \in [Domains -> Times]
  /\ obs \in Observation /\ current \in Observation
  /\ scrape.pc \in {"idle", "tokens"} /\ scrape.at \in Times
  /\ scrape.seen \in Observation /\ scrape.ended \subseteq Tokens
  /\ scrape.versions \in UNION {[C -> Tokens] : C \in SUBSET Claims}
  /\ close \in {"open", "cancelled", "shut", "closed", "expired"}

(* A scrape that starts after Unprepare has ended a lifetime shows no      *)
(* sample of it and counts no domain as anything but stale for it, however *)
(* old the observation is that it copied and whatever kubelet still lists. *)
EndedNotShown ==
  Answered => \A d \in Seen :
    scrape.seen.domains[d].token \in scrape.ended =>
      d \notin ShownMemory \cup ShownUtil
      /\ (d \in Counted => CountedState(d) = "stale")

(* Memory that is shown was written in the lifetime whose token vouches    *)
(* for it, although the file is found by the Claim's UID alone and without *)
(* the lock; the exception is a directory that Unprepare failed to remove. *)
MemoryOfLifetime ==
  Answered => \A d \in ShownMemory :
    scrape.seen.domains[d].life \in {scrape.seen.domains[d].token} \cup left

(* No value and no owner is shown that was read more than MaxAge before    *)
(* the scrape looked at its clock, however long a query, a lookup, a round *)
(* or the scrape itself took.                                              *)
FreshWhenShown ==
  Answered =>
    /\ ShownUtil # {} \/ ShownHosts # {} => Fresh(scrape.seen.hostRead)
    /\ \A d \in ShownMemory : Fresh(scrape.seen.domains[d].read)
    /\ ShownMemory \cup ShownUtil # {} => Fresh(scrape.seen.listed)

(* No two samples of one answer have the same labels: Prometheus would     *)
(* refuse the whole answer.                                                *)
NoDuplicateSeries ==
  Answered => \A d, e \in ShownMemory \cup ShownUtil :
    d[2] = e[2] /\ scrape.seen.domains[d].pod = scrape.seen.domains[e].pod
      => d = e

(* One answer agrees with itself: a domain is counted as ready if and only *)
(* if its memory is shown.                                                 *)
ReadyIsShown ==
  Answered => {d \in Counted : CountedState(d) = "ready"} = ShownMemory

(* A hardware query that blocks stops no sampling: whenever an interval    *)
(* has passed, a round starts that is younger, until Close.                *)
RefreshesGoOn ==
  \A t \in 1 .. MaxClock - Interval :
    now = t ~> (run.started > t - Interval \/ Cancelled)

(* Nor does it keep Close from ending the sampling.                        *)
CloseEnds == Cancelled ~> (close \in {"closed", "expired"} /\ run.pc = "done")
=============================================================================
