----------------------------- MODULE MonitorProofs -----------------------------
(***************************************************************************)
(* Theorems about the monitor, for any Claims, cards, pods and bounds.     *)
(***************************************************************************)
EXTENDS Monitor, FiniteSetTheorems, TLAPS

TokensKnown == last \in Nat /\ token \in [Claims -> 0 .. last]

(* The tokens that had ended when the running scrape started are old ones, *)
(* no Claim has one of them now, and the scrape has read none of them.     *)
EndedStayEnded ==
  /\ scrape.ended \subseteq 1 .. last
  /\ \A c \in Claims : token[c] \notin scrape.ended
  /\ \A c \in DOMAIN scrape.versions : scrape.versions[c] \notin scrape.ended

IInv == TokensKnown /\ EndedStayEnded

-----------------------------------------------------------------------------
LEMMA InitEnded == Init => IInv
<1> SUFFICES ASSUME Init PROVE IInv
  OBVIOUS
<1>1. last \in Nat
  BY FS_CardinalityType, ConfigAssumption DEF Init
<1>2. token \in [Claims -> 0 .. last]
  BY DEF Init
<1>3. scrape.ended = {} /\ DOMAIN scrape.versions = {}
  BY DEF Init
<1> QED
  BY <1>1, <1>2, <1>3 DEF IInv, TokensKnown, EndedStayEnded

(* Lifetimes begin with a new token, and an ended one does not come back.  *)
LEMMA LivesEnded == ASSUME IInv, Lives PROVE IInv'
<1>1. UNCHANGED scrape
  BY DEF Lives, Prepared, UnprepareEnds, UnprepareAgain, UnprepareReturns
<1>2. ASSUME NEW c \in Claims, NEW p \in Pods, Prepared(c, p) PROVE IInv'
  <2>1. last' = last + 1 /\ token' = [token EXCEPT ![c] = last + 1]
    BY <1>2 DEF Prepared
  <2>2. TokensKnown'
    BY <2>1 DEF IInv, TokensKnown
  <2>3. EndedStayEnded'
    BY <1>1, <2>1 DEF IInv, TokensKnown, EndedStayEnded
  <2> QED
    BY <2>2, <2>3 DEF IInv
<1>3. ASSUME NEW c \in Claims, UnprepareEnds(c) PROVE IInv'
  <2>1. last' = last /\ token' = [token EXCEPT ![c] = 0]
    BY <1>3 DEF UnprepareEnds, Lifetimes!End
  <2>2. TokensKnown'
    BY <2>1 DEF IInv, TokensKnown
  <2>3. EndedStayEnded'
    BY <1>1, <2>1 DEF IInv, TokensKnown, EndedStayEnded
  <2> QED
    BY <2>2, <2>3 DEF IInv
<1>4. CASE UNCHANGED <<token, last>>
  BY <1>1, <1>4 DEF IInv, TokensKnown, EndedStayEnded
<1> QED
  BY <1>2, <1>3, <1>4 DEF Lives, UnprepareAgain, UnprepareReturns

(* A scrape collects what has ended, and then reads only live tokens.      *)
LEMMA ScrapeEnded == ASSUME IInv, Scrape PROVE IInv'
<1>1. UNCHANGED <<token, last>>
  BY DEF Scrape, ScrapeStarts, ScrapeReadsToken, ScrapeReturns, lifeVars
<1>2. TokensKnown'
  BY <1>1 DEF IInv, TokensKnown
<1>3. CASE ScrapeStarts
  <2>1. /\ scrape'.ended = (1 .. last) \ {token[c] : c \in Claims}
        /\ DOMAIN scrape'.versions = {}
    BY <1>3 DEF ScrapeStarts
  <2> QED
    BY <1>1, <1>2, <2>1 DEF IInv, EndedStayEnded
<1>4. CASE ScrapeReturns
  <2>1. scrape'.ended = {} /\ DOMAIN scrape'.versions = {}
    BY <1>4 DEF ScrapeReturns
  <2> QED
    BY <1>1, <1>2, <2>1 DEF IInv, EndedStayEnded
<1>5. ASSUME NEW c \in Claims, ScrapeReadsToken(c) PROVE IInv'
  <2>1. /\ scrape' = [scrape EXCEPT !.versions =
             [e \in DOMAIN @ \cup {c} |-> IF e = c THEN token[c] ELSE @[e]]]
    BY <1>5 DEF ScrapeReadsToken, MetricsGeneration
  <2>2. scrape'.ended = scrape.ended
    BY <2>1
  <2> QED
    BY <1>1, <1>2, <2>1, <2>2 DEF IInv, EndedStayEnded
<1> QED
  BY <1>3, <1>4, <1>5 DEF Scrape

LEMMA StepEnded == IInv /\ [Next]_vars => IInv'
<1> SUFFICES ASSUME IInv, [Next]_vars PROVE IInv'
  OBVIOUS
<1>1. CASE Lives
  BY <1>1, LivesEnded
<1>2. CASE Scrape
  BY <1>2, ScrapeEnded
<1>3. CASE UNCHANGED <<token, last, scrape>>
  BY <1>3 DEF IInv, TokensKnown, EndedStayEnded
<1>4. Tick \/ Kubelet \/ Files => UNCHANGED <<token, last, scrape>>
  BY DEF Tick, Kubelet, RowAppears, RowDisappears, Files, FileGrows, lifeVars
<1>5. Hardware \/ Poll => UNCHANGED <<token, last, scrape>>
  BY DEF Hardware, HostReturns, Poll, PollAgain, PollStops, lifeVars
<1>6. Run => UNCHANGED <<token, last, scrape>>
  BY DEF Run, ReceiveResult, ReceiveTick, RunStops, ListWorkloads, Snapshot,
         ReadDomain, Publish, lifeVars
<1>7. Close \/ UNCHANGED vars => UNCHANGED <<token, last, scrape>>
  BY DEF Close, CloseCancels, CloseShutsDown, CloseReturns, CloseTimesOut, vars,
         lifeVars
<1> QED
  BY <1>1, <1>2, <1>3, <1>4, <1>5, <1>6, <1>7 DEF Next, Work

(* An answer that has read every token compares a token that had ended     *)
(* with one that had not.                                                  *)
LEMMA EndedImplied == IInv => EndedNotShown
<1> SUFFICES ASSUME IInv, Answered, NEW d \in Seen,
                    scrape.seen.domains[d].token \in scrape.ended
             PROVE  /\ d \notin ShownMemory \cup ShownUtil
                    /\ d \in Counted => CountedState(d) = "stale"
  BY DEF EndedNotShown
<1>1. d[1] \in DOMAIN scrape.versions
  BY DEF Answered, Unread
<1>2. ~ Current(d)
  BY <1>1 DEF IInv, EndedStayEnded, Current
<1> QED
  BY <1>2 DEF ShownMemory, ShownUtil, Sampled, CountedState

LEMMA EndedInvariant == Spec => []IInv
BY InitEnded, StepEnded, PTL DEF Spec

(* A scrape that starts after a lifetime has ended shows nothing of it and *)
(* counts nothing of it but as stale (collector.go, Collect), whatever the *)
(* observation it copied and however its reading of the tokens interleaves *)
(* with Prepare and Unprepare, whose lock it does not take.                *)
THEOREM EndedLifetimesAreHidden == Spec => []EndedNotShown
BY EndedInvariant, EndedImplied, PTL

-----------------------------------------------------------------------------
(* The types.  A row names the pod of a lifetime that has begun, and only  *)
(* those have one (RanKnown).                                              *)

WorldTypes ==
  /\ now \in Times \ {0}
  /\ token \in [Claims -> Tokens] /\ last \in Tokens
  /\ ending \in Claims \cup {NoClaim}
  /\ ran \in [1 .. MaxTokens -> Pods \cup {NoPod}] /\ left \subseteq Tokens
  /\ rows \in [Claims -> SUBSET Pods]
  /\ file \in [Domains -> [st : {"absent", "short", "pending", "ready"},
                           life : Tokens]]

HostTypes ==
  /\ poll \in [pc : {"query", "wait", "done"}, at : Times]
  /\ results \subseteq HostResult /\ host \in HostResult

RunTypes ==
  /\ ticked \in BOOLEAN
  /\ run \in [pc : {"select", "list", "snapshot", "read", "done"},
              started : Times]
  /\ owners \in [at : Times, listed : Times, rows : [Claims -> SUBSET Pods]]
  /\ short \in [Domains -> Times]
  /\ obs \in Observation /\ current \in Observation

ScrapeTypes ==
  /\ scrape.pc \in {"idle", "tokens"} /\ scrape.at \in Times
  /\ scrape.seen \in Observation /\ scrape.ended \subseteq Tokens
  /\ scrape.versions \in UNION {[C -> Tokens] : C \in SUBSET Claims}
  /\ close \in {"open", "cancelled", "shut", "closed", "expired"}

RanKnown == \A t \in 1 .. last : ran[t] \in Pods

TypeInv == MonitorTypeOK /\ RanKnown

LEMMA TypeParts ==
  MonitorTypeOK <=> WorldTypes /\ HostTypes /\ RunTypes /\ ScrapeTypes
BY DEF MonitorTypeOK, WorldTypes, HostTypes, RunTypes, ScrapeTypes

LEMMA Bounds ==
  /\ 0 \in Times /\ 1 \in Times /\ Times \subseteq Nat
  /\ 0 \in Tokens /\ Tokens \subseteq Nat
BY ConfigAssumption DEF Times, Tokens

LEMMA EmptyFunction ==
  ASSUME NEW S, NEW D
  PROVE  <<>> \in UNION {[X -> S] : X \in SUBSET D}
<1>1. <<>> \in [{} -> S]
  OBVIOUS
<1> QED
  BY <1>1

LEMMA NothingObserved == NoObservation \in Observation
BY EmptyFunction, Bounds DEF NoObservation, Observation

LEMMA OwnerIsPod ==
  ASSUME RunTypes, NEW c \in Claims
  PROVE  Owner(c) \in Pods \cup {NoPod}
<1>1. owners.rows[c] \in SUBSET Pods
  BY DEF RunTypes
<1>2. Cardinality(owners.rows[c]) = 1 => \E p : owners.rows[c] = {p}
  BY <1>1, FS_Subset, FS_Singleton, ConfigAssumption
<1> QED
  BY <1>1, <1>2 DEF Owner

LEMMA InitTypes == Init => TypeInv
<1> SUFFICES ASSUME Init PROVE TypeInv
  OBVIOUS
<1>1. last \in Nat /\ last \in Tokens
  BY FS_CardinalityType, ConfigAssumption DEF Init, Tokens
<1>2. token \in [Claims -> 0 .. last] /\ token \in [Claims -> Tokens]
  BY <1>1, ConfigAssumption DEF Init, Tokens
<1>3. ran \in [1 .. MaxTokens -> Pods \cup {NoPod}] /\ RanKnown
  BY <1>1, ConfigAssumption DEF Init, RanKnown, Tokens
<1>4. rows \in [Claims -> SUBSET Pods]
  <2>1. \A c \in Restored : token[c] \in 1 .. last
    BY <1>1, <1>2, ConfigAssumption DEF Init
  <2> QED
    BY <1>3, <2>1 DEF Init, RanKnown
<1>5. file \in [Domains -> [st : {"absent", "short", "pending", "ready"}, life : Tokens]]
  BY <1>2 DEF Init, Domains
<1>6. WorldTypes
  BY <1>1, <1>2, <1>3, <1>4, <1>5, ConfigAssumption DEF Init, WorldTypes, Times
<1>7. HostTypes
  BY Bounds DEF Init, HostTypes, HostResult, NoResult
<1>8. RunTypes
  <2>1. owners \in [at : Times, listed : Times, rows : [Claims -> SUBSET Pods]]
    BY Bounds DEF Init
  <2>2. run \in [pc : {"select", "list", "snapshot", "read", "done"}, started : Times]
    BY Bounds DEF Init
  <2> QED
    BY <2>1, <2>2, NothingObserved, Bounds DEF Init, RunTypes
<1>9. ScrapeTypes
  <2>1. scrape.versions \in UNION {[C -> Tokens] : C \in SUBSET Claims}
    <3>1. scrape.versions = <<>>
      BY DEF Init
    <3> QED
      BY <3>1, EmptyFunction
  <2> QED
    BY <2>1, NothingObserved, Bounds DEF Init, ScrapeTypes
<1> QED
  BY <1>3, <1>6, <1>7, <1>8, <1>9, TypeParts DEF TypeInv

LEMMA WorldStep ==
  TokensKnown /\ WorldTypes /\ RanKnown /\ [Next]_vars => WorldTypes' /\ RanKnown'
<1> SUFFICES ASSUME TokensKnown, WorldTypes, RanKnown, [Next]_vars
             PROVE  WorldTypes' /\ RanKnown'
  OBVIOUS
<1>1. CASE Tick
  BY <1>1, ConfigAssumption DEF Tick, lifeVars, podVars, WorldTypes, RanKnown, Times
<1>2. ASSUME NEW c \in Claims, NEW p \in Pods, Prepared(c, p)
      PROVE  WorldTypes' /\ RanKnown'
  <2>1. last' = last + 1 /\ last' \in Tokens /\ last' \in 1 .. MaxTokens
    BY <1>2, ConfigAssumption DEF Prepared, WorldTypes, Tokens
  <2>2. /\ token' = [token EXCEPT ![c] = last'] /\ ran' = [ran EXCEPT ![last'] = p]
        /\ UNCHANGED <<now, ending, left, rows, file>>
    BY <1>2 DEF Prepared, podVars
  <2>3. RanKnown'
    BY <2>1, <2>2 DEF WorldTypes, RanKnown, Tokens
  <2> QED
    BY <2>1, <2>2, <2>3 DEF WorldTypes
<1>3. ASSUME NEW c \in Claims, UnprepareEnds(c) \/ UnprepareAgain(c)
      PROVE  WorldTypes' /\ RanKnown'
  <2>1. token' = token \/ token' = [token EXCEPT ![c] = 0]
    BY <1>3 DEF UnprepareEnds, UnprepareAgain
  <2>2. UNCHANGED <<now, last, ran, left, rows, file>> /\ ending' = c
    BY <1>3 DEF UnprepareEnds, UnprepareAgain, Lifetimes!End, podVars
  <2> QED
    BY <2>1, <2>2, Bounds DEF WorldTypes, RanKnown
<1>4. ASSUME NEW removed \in BOOLEAN, UnprepareReturns(removed)
      PROVE  WorldTypes' /\ RanKnown'
  <2>1. FilesRemoved(ending, removed) /\ ending' = NoClaim
        /\ UNCHANGED <<now, token, last, ran, rows>>
    BY <1>4 DEF UnprepareReturns
  <2>2. CASE removed
    <3>1. [st |-> "absent", life |-> 0]
            \in [st : {"absent", "short", "pending", "ready"}, life : Tokens]
      BY Bounds
    <3>2. /\ left' = left
          /\ file' = [d \in Domains |-> IF d[1] = ending THEN [st |-> "absent", life |-> 0]
                                        ELSE file[d]]
      BY <2>1, <2>2 DEF FilesRemoved
    <3>3. file' \in [Domains -> [st : {"absent", "short", "pending", "ready"}, life : Tokens]]
      BY <3>1, <3>2 DEF WorldTypes
    <3> QED
      BY <2>1, <3>2, <3>3 DEF WorldTypes, RanKnown
  <2>3. CASE ~ removed
    BY <2>1, <2>3 DEF FilesRemoved, WorldTypes, RanKnown
  <2> QED
    BY <2>2, <2>3
<1>5. ASSUME NEW c \in Claims, RowAppears(c) PROVE WorldTypes' /\ RanKnown'
  <2>1. token[c] \in Tokens
    BY DEF WorldTypes
  <2>2. token[c] \in 1 .. last
    BY <1>5, <2>1 DEF RowAppears, WorldTypes, TokensKnown
  <2>3. ran[token[c]] \in Pods
    BY <2>2 DEF RanKnown
  <2> QED
    BY <1>5, <2>2, <2>3 DEF RowAppears, lifeVars, WorldTypes, RanKnown
<1>6. ASSUME NEW c \in Claims, NEW p \in Pods, RowDisappears(c, p)
      PROVE  WorldTypes' /\ RanKnown'
  BY <1>6 DEF RowDisappears, lifeVars, WorldTypes, RanKnown
<1>7. ASSUME NEW d \in Domains, FileGrows(d) PROVE WorldTypes' /\ RanKnown'
  <2>1. \A s \in DOMAIN Grown : Grown[s] \in {"short", "pending", "ready"}
    BY DEF Grown
  <2>2. d[1] \in Claims
    BY DEF Domains
  <2> QED
    BY <1>7, <2>1, <2>2 DEF FileGrows, lifeVars, WorldTypes, RanKnown
<1>8. CASE UNCHANGED <<now, lifeVars, podVars>>
  BY <1>8 DEF lifeVars, podVars, WorldTypes, RanKnown
<1>9. Hardware \/ Poll \/ Run \/ Scrape \/ Close \/ UNCHANGED vars
        => UNCHANGED <<now, lifeVars, podVars>>
  BY DEF Hardware, HostReturns, Poll, PollAgain, PollStops, Run, ReceiveResult, ReceiveTick,
         RunStops, ListWorkloads, Snapshot, ReadDomain, Publish, Scrape, ScrapeStarts,
         ScrapeReadsToken, ScrapeReturns, Close, CloseCancels, CloseShutsDown, CloseReturns,
         CloseTimesOut, vars
<1> QED
  BY <1>1, <1>2, <1>3, <1>4, <1>5, <1>6, <1>7, <1>8, <1>9 DEF Next, Work, Lives, Kubelet, Files

LEMMA HostStep ==
  WorldTypes /\ HostTypes /\ [Next]_vars => HostTypes'
<1> SUFFICES ASSUME WorldTypes, HostTypes, [Next]_vars PROVE HostTypes'
  OBVIOUS
<1>1. ASSUME NEW cards \in SUBSET Cards, NEW util \in SUBSET cards, HostReturns(cards, util)
      PROVE  HostTypes'
  <2>1. [at |-> Stamp(poll.at), read |-> poll.at, cards |-> cards, util |-> util] \in HostResult
    BY DEF HostTypes, HostResult, Stamp
  <2> QED
    BY <1>1, <2>1 DEF HostReturns, runVars, HostTypes, WorldTypes
<1>2. CASE PollAgain
  BY <1>2 DEF PollAgain, runVars, HostTypes, WorldTypes
<1>3. ASSUME NEW pc, PollStops(pc) PROVE HostTypes'
  BY <1>3, Bounds DEF PollStops, runVars, HostTypes
<1>4. CASE ReceiveResult
  BY <1>4 DEF ReceiveResult, HostTypes
<1>5. CASE UNCHANGED <<poll, results, host>>
  BY <1>5 DEF HostTypes
<1>6. Tick \/ Lives \/ Kubelet \/ Files => UNCHANGED <<poll, results, host>>
  BY DEF Tick, Lives, Prepared, UnprepareEnds, UnprepareAgain, UnprepareReturns, Kubelet,
         RowAppears, RowDisappears, Files, FileGrows, pollVars, runVars
<1>7. ReceiveTick \/ RunStops \/ (\E answered \in BOOLEAN : ListWorkloads(answered)) \/ Snapshot
        \/ (\E d, state : ReadDomain(d, state)) \/ Publish => UNCHANGED <<poll, results, host>>
  BY DEF ReceiveTick, RunStops, ListWorkloads, Snapshot, ReadDomain, Publish, pollVars
<1>8. Scrape \/ Close \/ UNCHANGED vars => UNCHANGED <<poll, results, host>>
  BY DEF Scrape, ScrapeStarts, ScrapeReadsToken, ScrapeReturns, Close, CloseCancels,
         CloseShutsDown, CloseReturns, CloseTimesOut, vars, pollVars, runVars
<1> QED
  BY <1>1, <1>2, <1>3, <1>4, <1>5, <1>6, <1>7, <1>8 DEF Next, Work, Hardware, Poll, Run

LEMMA HostsAreCards == HostTypes => Hosts \subseteq Cards /\ Hosts \cap host.util \subseteq Cards
BY DEF Hosts, HostTypes, HostResult

LEMMA MappedStates ==
  ASSUME NEW d, NEW D
  PROVE  ObservedState(d, D) \in {"reading", "unmapped", "ambiguous", "stale", "unsupported"}
<1>1. MappedState(d) \in {"reading", "unmapped", "ambiguous", "stale", "unsupported"}
  BY DEF MappedState
<1> QED
  BY <1>1 DEF ObservedState

LEMMA SnapshotTypes ==
  ASSUME WorldTypes, HostTypes, RunTypes, Snapshot
  PROVE  RunTypes'
<1> DEFINE D == MetricsSnapshot
           O == [d \in D |->
                  [token |-> MetricsGeneration(d[1]), pod |-> Owner(d[1]),
                   util |-> d[2] \in Hosts \cap host.util, read |-> 0, life |-> 0,
                   state |-> ObservedState(d, D)]]
<1>1. D \in SUBSET Domains
  BY DEF MetricsSnapshot
<1>2. ASSUME NEW d \in D PROVE O[d] \in Observed
  <2>1. d[1] \in Claims
    BY <1>1 DEF Domains
  <2>2. token[d[1]] \in Tokens /\ Owner(d[1]) \in Pods \cup {NoPod}
    BY <2>1, OwnerIsPod DEF WorldTypes
  <2>3. ObservedState(d, D) \in {"reading", "unmapped", "ambiguous", "stale", "unsupported"}
    BY MappedStates
  <2> HIDE DEF D
  <2> QED
    BY <2>2, <2>3, Bounds DEF Observed, MetricsGeneration
<1>3. O \in UNION {[X -> Observed] : X \in SUBSET Domains}
  <2> HIDE DEF D
  <2>1. O \in [D -> Observed]
    BY <1>2
  <2> QED
    BY <1>1, <2>1
<1>4. obs' = [at |-> run.started, workAt |-> owners.at, listed |-> owners.listed,
              hostAt |-> IF Hosts = {} THEN 0 ELSE host.at,
              hostRead |-> IF Hosts = {} THEN 0 ELSE host.read,
              cards |-> Hosts, util |-> Hosts \cap host.util, domains |-> O]
  BY DEF Snapshot
<1>5. obs' \in Observation
  <2> HIDE DEF O
  <2> QED
    BY <1>3, <1>4, HostsAreCards, Bounds DEF Observation, HostTypes, HostResult, RunTypes
<1>6. run' \in [pc : {"select", "list", "snapshot", "read", "done"}, started : Times]
  BY DEF Snapshot, RunTypes
<1>7. short' \in [Domains -> Times]
  BY Bounds DEF Snapshot, RunTypes
<1> QED
  BY <1>5, <1>6, <1>7 DEF Snapshot, RunTypes

LEMMA ReadTypes ==
  ASSUME WorldTypes, RunTypes, NEW d \in Domains, NEW state \in {"pending", "ready", "invalid"},
         ReadDomain(d, state)
  PROVE  RunTypes'
<1> DEFINE New == IF state = "ready"
                  THEN [obs.domains[d] EXCEPT !.state = state, !.read = now, !.life = file[d].life]
                  ELSE [obs.domains[d] EXCEPT !.state = state]
<1>1. PICK D \in SUBSET Domains : obs.domains \in [D -> Observed]
  BY DEF RunTypes, Observation
<1>2. d \in D
  BY <1>1 DEF ReadDomain
<1>3. New \in Observed
  BY <1>1, <1>2 DEF Observed, WorldTypes
<1>4. obs' = [obs EXCEPT !.domains = [obs.domains EXCEPT ![d] = New]]
  BY DEF ReadDomain
<1>5. [obs.domains EXCEPT ![d] = New] \in UNION {[X -> Observed] : X \in SUBSET Domains}
  <2> HIDE DEF New
  <2> QED
    BY <1>1, <1>3
<1>6. obs' \in Observation
  <2> HIDE DEF New
  <2> QED
    BY <1>4, <1>5 DEF RunTypes, Observation
<1>7. short' \in [Domains -> Times]
  BY Bounds DEF ReadDomain, FirstShort, RunTypes
<1> QED
  BY <1>6, <1>7 DEF ReadDomain, RunTypes

LEMMA RunStep ==
  WorldTypes /\ HostTypes /\ RunTypes /\ [Next]_vars => RunTypes'
<1> SUFFICES ASSUME WorldTypes, HostTypes, RunTypes, [Next]_vars PROVE RunTypes'
  OBVIOUS
<1>1. CASE Tick
  BY <1>1 DEF Tick, RunTypes
<1>2. CASE ReceiveResult \/ ReceiveTick
  <2>1. run' \in [pc : {"select", "list", "snapshot", "read", "done"}, started : Times]
    BY <1>2 DEF ReceiveResult, ReceiveTick, Refresh, RunTypes, WorldTypes
  <2> QED
    BY <1>2, <2>1 DEF ReceiveResult, ReceiveTick, RunTypes
<1>3. CASE RunStops
  BY <1>3 DEF RunStops, RunTypes
<1>4. ASSUME NEW answered \in BOOLEAN, ListWorkloads(answered) PROVE RunTypes'
  <2>1. owners' \in [at : Times, listed : Times, rows : [Claims -> SUBSET Pods]]
    BY <1>4 DEF ListWorkloads, OwnersListed, Resolve, RunTypes, WorldTypes
  <2> QED
    BY <1>4, <2>1 DEF ListWorkloads, RunTypes
<1>5. CASE Snapshot
  BY <1>5, SnapshotTypes
<1>6. ASSUME NEW d \in Domains, NEW state \in {"pending", "ready", "invalid"},
             ReadDomain(d, state)
      PROVE  RunTypes'
  BY <1>6, ReadTypes
<1>7. CASE Publish
  BY <1>7, NothingObserved DEF Publish, RunTypes
<1>8. CASE UNCHANGED runVars
  BY <1>8 DEF runVars, RunTypes
<1>9. Lives \/ Kubelet \/ Files \/ Hardware \/ Poll => UNCHANGED runVars
  BY DEF Lives, Prepared, UnprepareEnds, UnprepareAgain, UnprepareReturns, Kubelet,
         RowAppears, RowDisappears, Files, FileGrows, Hardware, HostReturns, Poll, PollAgain,
         PollStops
<1>10. Scrape \/ Close \/ UNCHANGED vars => UNCHANGED runVars
  BY DEF Scrape, ScrapeStarts, ScrapeReadsToken, ScrapeReturns, Close, CloseCancels,
         CloseShutsDown, CloseReturns, CloseTimesOut, vars
<1> QED
  BY <1>1, <1>2, <1>3, <1>4, <1>5, <1>6, <1>7, <1>8, <1>9, <1>10 DEF Next, Work, Run

LEMMA ScrapeStep ==
  TypeInv /\ [Next]_vars => ScrapeTypes'
<1> SUFFICES ASSUME TypeInv, [Next]_vars PROVE ScrapeTypes'
  OBVIOUS
<1>1. ScrapeTypes /\ current \in Observation /\ last \in Tokens /\ now \in Times
      /\ token \in [Claims -> Tokens]
  BY TypeParts DEF TypeInv, WorldTypes, RunTypes
<1>2. CASE ScrapeStarts
  <2>1. (1 .. last) \ {token[c] : c \in Claims} \subseteq Tokens
    BY <1>1, ConfigAssumption DEF Tokens
  <2>2. scrape'.versions = <<>>
    BY <1>2 DEF ScrapeStarts
  <2> QED
    BY <1>1, <1>2, <2>1, <2>2, EmptyFunction DEF ScrapeStarts, ScrapeTypes
<1>3. CASE ScrapeReturns
  <2>1. scrape'.versions = <<>>
    BY <1>3 DEF ScrapeReturns
  <2> QED
    BY <1>1, <1>3, <2>1, EmptyFunction, NothingObserved, Bounds DEF ScrapeReturns, ScrapeTypes
<1>4. ASSUME NEW c \in Claims, ScrapeReadsToken(c) PROVE ScrapeTypes'
  <2> DEFINE V == [e \in DOMAIN scrape.versions \cup {c} |->
                    IF e = c THEN token[c] ELSE scrape.versions[e]]
  <2>1. scrape' = [scrape EXCEPT !.versions = V] /\ close' = close
    BY <1>4 DEF ScrapeReadsToken, MetricsGeneration
  <2>2. PICK C \in SUBSET Claims : scrape.versions \in [C -> Tokens]
    BY <1>1 DEF ScrapeTypes
  <2>3. V \in [C \cup {c} -> Tokens] /\ C \cup {c} \in SUBSET Claims
    BY <1>1, <2>2
  <2>4. V \in UNION {[X -> Tokens] : X \in SUBSET Claims}
    BY <2>3
  <2> HIDE DEF V
  <2> QED
    BY <1>1, <2>1, <2>4 DEF ScrapeTypes
<1>5. CASE UNCHANGED scrape
  <2>1. close' = close \/ Close
    BY DEF Next, Work, Tick, Lives, Prepared, UnprepareEnds, UnprepareAgain, UnprepareReturns,
           Kubelet, RowAppears, RowDisappears, Files, FileGrows, Hardware, HostReturns, Poll,
           PollAgain, PollStops, Run, ReceiveResult, ReceiveTick, RunStops, ListWorkloads,
           Snapshot, ReadDomain, Publish, Scrape, ScrapeStarts, ScrapeReadsToken,
           ScrapeReturns, vars
  <2>2. Close => close' \in {"open", "cancelled", "shut", "closed", "expired"}
    BY DEF Close, CloseCancels, CloseShutsDown, CloseReturns, CloseTimesOut
  <2> QED
    BY <1>1, <1>5, <2>1, <2>2 DEF ScrapeTypes
<1>6. Tick \/ Lives \/ Kubelet \/ Files \/ Hardware \/ Poll => UNCHANGED scrape
  BY DEF Tick, Lives, Prepared, UnprepareEnds, UnprepareAgain, UnprepareReturns, Kubelet,
         RowAppears, RowDisappears, Files, FileGrows, Hardware, HostReturns, Poll, PollAgain,
         PollStops
<1>7. Run \/ Close \/ UNCHANGED vars => UNCHANGED scrape
  BY DEF Run, ReceiveResult, ReceiveTick, RunStops, ListWorkloads, Snapshot, ReadDomain,
         Publish, Close, CloseCancels, CloseShutsDown, CloseReturns, CloseTimesOut, vars
<1> QED
  BY <1>2, <1>3, <1>4, <1>5, <1>6, <1>7 DEF Next, Work, Scrape

LEMMA TypesStep == TokensKnown /\ TypeInv /\ [Next]_vars => TypeInv'
<1> SUFFICES ASSUME TokensKnown, TypeInv, [Next]_vars PROVE TypeInv'
  OBVIOUS
<1>1. WorldTypes /\ HostTypes /\ RunTypes /\ RanKnown
  BY TypeParts DEF TypeInv
<1>2. MonitorTypeOK' <=> WorldTypes' /\ HostTypes' /\ RunTypes' /\ ScrapeTypes'
  BY DEF MonitorTypeOK, WorldTypes, HostTypes, RunTypes, ScrapeTypes
<1> QED
  BY <1>1, <1>2, WorldStep, HostStep, RunStep, ScrapeStep DEF TypeInv

LEMMA TypesInvariant == Spec => [](IInv /\ TypeInv)
<1>1. IInv /\ TypeInv /\ [Next]_vars => TypeInv'
  BY TypesStep DEF IInv
<1> QED
  BY <1>1, InitTypes, EndedInvariant, PTL DEF Spec

(* Every variable has its type, through every interleaving of the three    *)
(* goroutines (monitor.go) with Claims, kubelet and the containers.        *)
THEOREM MonitorTypes == Spec => []MonitorTypeOK
<1>1. TypeInv => MonitorTypeOK
  BY DEF TypeInv
<1> QED
  BY <1>1, TypesInvariant, PTL

-----------------------------------------------------------------------------

(* What is held of every observation, wherever it is: being built,         *)
(* published or copied by a scrape.                                        *)
Observations == {obs, current, scrape.seen}

(* An observation says how old its values are: it is stamped with the      *)
(* times at which kubelet and the hardware were read, and its own stamp is *)
(* not later than any reading of memory in it.                             *)
StampedHonestly(o) ==
  /\ o.hostAt = o.hostRead /\ o.workAt = o.listed
  /\ \A d \in DOMAIN o.domains :
       o.domains[d].state = "ready" => o.at <= o.domains[d].read

StampsInv ==
  /\ host.at = host.read /\ \A r \in results : r.at = r.read
  /\ owners.at = owners.listed
  /\ run.started <= now /\ obs.at <= now
  /\ \A o \in Observations : StampedHonestly(o)

(* Only Claims that were prepared are observed.                            *)
ObservesPrepared(o) == \A d \in DOMAIN o.domains : o.domains[d].token # 0

PreparedInv == \A o \in Observations : ObservesPrepared(o)

(* At most one domain of a pod and a card is read.                         *)
ReadOrToRead == {"reading", "ready"}

LabelsDiffer(o) ==
  \A d, e \in DOMAIN o.domains :
    /\ d[2] = e[2] /\ o.domains[d].pod = o.domains[e].pod
    /\ o.domains[d].state \in ReadOrToRead /\ o.domains[e].state \in ReadOrToRead
    => d = e

LabelsInv == \A o \in Observations : LabelsDiffer(o)

(* A file is of the lifetime of its Claim, or it could not be removed when *)
(* the lifetime it is of had ended.  While Unprepare is between its two    *)
(* steps, the file of the lifetime it ended is still there.                *)
FilesInv ==
  /\ 0 \notin left
  /\ \A d \in Domains : file[d].st # "absent" =>
       /\ file[d].life # 0
       /\ token[d[1]] # 0 \/ ending # d[1] => file[d].life \in {token[d[1]]} \cup left

(* Memory read for token t of its Claim is of t, or of a lifetime in kept. *)
Vouches(o, d, t, kept) ==
  o.domains[d].state = "ready" /\ t = o.domains[d].token
    => o.domains[d].life \in {t} \cup kept

MemoryInv ==
  /\ FilesInv
  /\ \A o \in Observations : \A d \in DOMAIN o.domains :
       o.domains[d].token \in 1 .. last /\ Vouches(o, d, token[d[1]], left)
  /\ \A d \in Seen : d[1] \in DOMAIN scrape.versions =>
       Vouches(scrape.seen, d, scrape.versions[d[1]], left)

(* How observations move: from run to Collect, and how they change.        *)
LEMMA ObservationsMove ==
  [Next]_vars =>
    /\ current' \in {current, obs}
    /\ scrape'.seen \in {scrape.seen, current, NoObservation}
    /\ \/ obs' \in {obs, NoObservation}
       \/ Snapshot
       \/ \E d \in Domains, state \in {"pending", "ready", "invalid"} : ReadDomain(d, state)
<1> SUFFICES ASSUME [Next]_vars
             PROVE  /\ current' \in {current, obs}
                    /\ scrape'.seen \in {scrape.seen, current, NoObservation}
                    /\ \/ obs' \in {obs, NoObservation}
                       \/ Snapshot
                       \/ \E d \in Domains, state \in {"pending", "ready", "invalid"} :
                            ReadDomain(d, state)
  OBVIOUS
<1>1. CASE Run
  <2>1. UNCHANGED scrape
    BY <1>1 DEF Run, ReceiveResult, ReceiveTick, RunStops, ListWorkloads, Snapshot, ReadDomain,
                Publish
  <2>2. ReceiveResult \/ ReceiveTick \/ RunStops \/ (\E answered \in BOOLEAN : ListWorkloads(answered))
          => UNCHANGED <<obs, current>>
    BY DEF ReceiveResult, ReceiveTick, RunStops, ListWorkloads
  <2>3. Publish => current' = obs /\ obs' = NoObservation
    BY DEF Publish
  <2>4. Snapshot => UNCHANGED current
    BY DEF Snapshot
  <2>5. (\E d \in Domains, state \in {"pending", "ready", "invalid"} : ReadDomain(d, state))
          => UNCHANGED current
    BY DEF ReadDomain
  <2> QED
    BY <1>1, <2>1, <2>2, <2>3, <2>4, <2>5 DEF Run
<1>2. CASE Scrape
  <2>1. UNCHANGED <<obs, current>>
    BY <1>2 DEF Scrape, ScrapeStarts, ScrapeReadsToken, ScrapeReturns, runVars
  <2>2. ScrapeStarts => scrape'.seen = current
    BY DEF ScrapeStarts
  <2>3. ScrapeReturns => scrape'.seen = NoObservation
    BY DEF ScrapeReturns
  <2>4. ASSUME NEW c \in Claims, ScrapeReadsToken(c) PROVE scrape'.seen = scrape.seen
    BY <2>4 DEF ScrapeReadsToken
  <2> QED
    BY <1>2, <2>1, <2>2, <2>3, <2>4 DEF Scrape
<1>3. CASE UNCHANGED <<obs, current, scrape>>
  BY <1>3
<1>4. Tick \/ Lives \/ Kubelet \/ Files \/ Hardware \/ Poll => UNCHANGED <<obs, current, scrape>>
  BY DEF Tick, Lives, Prepared, UnprepareEnds, UnprepareAgain, UnprepareReturns, Kubelet,
         RowAppears, RowDisappears, Files, FileGrows, Hardware, HostReturns, Poll, PollAgain,
         PollStops, runVars
<1>5. Close \/ UNCHANGED vars => UNCHANGED <<obs, current, scrape>>
  BY DEF Close, CloseCancels, CloseShutsDown, CloseReturns, CloseTimesOut, vars, runVars
<1> QED
  BY <1>1, <1>2, <1>3, <1>4, <1>5 DEF Next, Work

(* What a snapshot and a reading of memory make of the observation.        *)
LEMMA SnapshotObserves ==
  ASSUME Snapshot
  PROVE  /\ obs'.at = run.started /\ obs'.workAt = owners.at /\ obs'.listed = owners.listed
         /\ obs'.hostAt = (IF Hosts = {} THEN 0 ELSE host.at)
         /\ obs'.hostRead = (IF Hosts = {} THEN 0 ELSE host.read)
         /\ DOMAIN obs'.domains = MetricsSnapshot
         /\ \A d \in MetricsSnapshot :
              /\ obs'.domains[d].token = token[d[1]] /\ obs'.domains[d].pod = Owner(d[1])
              /\ obs'.domains[d].state = ObservedState(d, MetricsSnapshot)
BY DEF Snapshot, MetricsGeneration

LEMMA ReadObserves ==
  ASSUME TypeInv, NEW d \in Domains, NEW state \in {"pending", "ready", "invalid"},
         ReadDomain(d, state)
  PROVE  /\ obs'.at = obs.at /\ obs'.workAt = obs.workAt /\ obs'.listed = obs.listed
         /\ obs'.hostAt = obs.hostAt /\ obs'.hostRead = obs.hostRead
         /\ DOMAIN obs'.domains = DOMAIN obs.domains /\ d \in DOMAIN obs.domains
         /\ obs.domains[d].state = "reading"
         /\ \A e \in DOMAIN obs.domains \ {d} : obs'.domains[e] = obs.domains[e]
         /\ obs'.domains[d].token = obs.domains[d].token
         /\ obs'.domains[d].pod = obs.domains[d].pod
         /\ obs'.domains[d].state = state
         /\ state = "ready" => /\ file[d].st = "ready"
                               /\ obs'.domains[d].read = now
                               /\ obs'.domains[d].life = file[d].life
<1> DEFINE New == IF state = "ready"
                  THEN [obs.domains[d] EXCEPT !.state = state, !.read = now, !.life = file[d].life]
                  ELSE [obs.domains[d] EXCEPT !.state = state]
<1>1. /\ d \in DOMAIN obs.domains /\ obs.domains[d].state = "reading" /\ state \in ReadStates(d)
      /\ obs' = [obs EXCEPT !.domains = [obs.domains EXCEPT ![d] = New]]
  BY DEF ReadDomain
<1>2. PICK D \in SUBSET Domains : obs.domains \in [D -> Observed]
  BY DEF TypeInv, MonitorTypeOK, Observation
<1>3. obs.domains[d] \in Observed
  BY <1>1, <1>2
<1>4. obs \in Observation
  BY DEF TypeInv, MonitorTypeOK
<1>5. obs'.domains = [obs.domains EXCEPT ![d] = New]
  BY <1>1, <1>4 DEF Observation
<1>6. /\ New.token = obs.domains[d].token /\ New.pod = obs.domains[d].pod /\ New.state = state
      /\ state = "ready" => New.read = now /\ New.life = file[d].life
  BY <1>3 DEF Observed
<1>7. state = "ready" => file[d].st = "ready"
  BY <1>1 DEF ReadStates
<1>8. /\ obs'.at = obs.at /\ obs'.workAt = obs.workAt /\ obs'.listed = obs.listed
      /\ obs'.hostAt = obs.hostAt /\ obs'.hostRead = obs.hostRead
  BY <1>1, <1>4 DEF Observation
<1>9. /\ DOMAIN obs'.domains = DOMAIN obs.domains
      /\ \A e \in DOMAIN obs.domains \ {d} : obs'.domains[e] = obs.domains[e]
      /\ obs'.domains[d] = New
  <2> HIDE DEF New
  <2> QED
    BY <1>1, <1>2, <1>5
<1> HIDE DEF New
<1> QED
  BY <1>1, <1>6, <1>7, <1>8, <1>9

-----------------------------------------------------------------------------
(* Stamps.                                                                 *)
LEMMA InitStamps == Init => StampsInv
<1> SUFFICES ASSUME Init PROVE StampsInv
  OBVIOUS
<1>1. DOMAIN NoObservation.domains = {}
  BY DEF NoObservation
<1>2. StampedHonestly(NoObservation)
  BY <1>1 DEF StampedHonestly, NoObservation
<1>3. host.at = host.read /\ results = {} /\ owners.at = owners.listed
  BY DEF Init, NoResult
<1>4. run.started <= now /\ obs.at <= now
  BY DEF Init, NoObservation
<1> QED
  BY <1>2, <1>3, <1>4 DEF Init, StampsInv, Observations

(* The clock and everything that is stamped with it, but observations.     *)
LEMMA StampStep ==
  TypeInv /\ StampsInv /\ [Next]_vars =>
    /\ host'.at = host'.read /\ \A r \in results' : r.at = r.read
    /\ owners'.at = owners'.listed
    /\ now' \in Nat /\ now <= now' /\ run'.started <= now'
<1> SUFFICES ASSUME TypeInv, StampsInv, [Next]_vars
             PROVE  /\ host'.at = host'.read /\ \A r \in results' : r.at = r.read
                    /\ owners'.at = owners'.listed
                    /\ now' \in Nat /\ now <= now' /\ run'.started <= now'
  OBVIOUS
<1>1. now \in Nat /\ run \in [pc : {"select", "list", "snapshot", "read", "done"}, started : Times]
  BY Bounds DEF TypeInv, MonitorTypeOK
<1>2. CASE Tick
  <2>1. now' = now + 1 /\ UNCHANGED <<results, host, owners, run>>
    BY <1>2 DEF Tick, pollVars
  <2>2. run.started \in Nat /\ run.started <= now
    BY <1>1, Bounds DEF StampsInv
  <2>3. now' \in Nat /\ now <= now' /\ run'.started <= now'
    BY <1>1, <2>1, <2>2
  <2> QED
    BY <2>1, <2>3 DEF StampsInv
<1>3. CASE Hardware
  BY <1>1, <1>3 DEF Hardware, HostReturns, Stamp, PollStops, runVars, StampsInv
<1>4. CASE ReceiveResult
  BY <1>1, <1>4 DEF ReceiveResult, Refresh, StampsInv
<1>5. CASE ReceiveTick
  BY <1>1, <1>5 DEF ReceiveTick, Refresh, pollVars, StampsInv
<1>6. ASSUME NEW answered \in BOOLEAN, ListWorkloads(answered)
      PROVE  /\ UNCHANGED <<now, results, host>> /\ run'.started = run.started
             /\ owners'.at = owners'.listed
  BY <1>1, <1>6 DEF ListWorkloads, OwnersListed, pollVars, StampsInv
<1>7. CASE UNCHANGED <<now, results, host, owners>> /\ run'.started = run.started
  BY <1>1, <1>7 DEF StampsInv
<1>8. Lives \/ Kubelet \/ Files \/ Poll \/ Scrape \/ Close \/ UNCHANGED vars
        => UNCHANGED <<now, results, host, owners, run>>
  BY DEF Lives, Prepared, UnprepareEnds, UnprepareAgain, UnprepareReturns, Kubelet,
         RowAppears, RowDisappears, Files, FileGrows, Poll, PollAgain, PollStops, Scrape,
         ScrapeStarts, ScrapeReadsToken, ScrapeReturns, Close, CloseCancels, CloseShutsDown,
         CloseReturns, CloseTimesOut, vars, pollVars, runVars
<1>9. RunStops \/ Snapshot \/ (\E d, state : ReadDomain(d, state)) \/ Publish
        => UNCHANGED <<now, results, host, owners>> /\ run'.started = run.started
  BY <1>1 DEF RunStops, Snapshot, ReadDomain, Publish, pollVars
<1> QED
  BY <1>1, <1>2, <1>3, <1>4, <1>5, <1>6, <1>7, <1>8, <1>9 DEF Next, Work, Run, StampsInv

LEMMA StampsStep == TypeInv /\ StampsInv /\ [Next]_vars => StampsInv'
<1> SUFFICES ASSUME TypeInv, StampsInv, [Next]_vars PROVE StampsInv'
  OBVIOUS
<1>1. /\ host'.at = host'.read /\ \A r \in results' : r.at = r.read
      /\ owners'.at = owners'.listed /\ now' \in Nat /\ now <= now' /\ run'.started <= now'
  BY StampStep
<1>2. StampedHonestly(NoObservation) /\ NoObservation.at = 0
  BY DEF StampedHonestly, NoObservation
<1>3. now \in Nat /\ now' \in Nat /\ obs.at \in Nat
  BY <1>1, Bounds DEF TypeInv, MonitorTypeOK, Observation
<1>4. StampedHonestly(obs') /\ obs'.at <= now'
  <2>1. CASE obs' \in {obs, NoObservation}
    BY <1>1, <1>2, <1>3, <2>1 DEF StampsInv, Observations
  <2>2. CASE Snapshot
    <3>1. \A d \in MetricsSnapshot : ObservedState(d, MetricsSnapshot) # "ready"
      BY MappedStates
    <3>2. now' = now /\ run.started <= now
      BY <2>2 DEF Snapshot, StampsInv
    <3> QED
      BY <2>2, <3>1, <3>2, SnapshotObserves DEF StampedHonestly, StampsInv
  <2>3. ASSUME NEW d \in Domains, NEW state \in {"pending", "ready", "invalid"},
               ReadDomain(d, state)
        PROVE  StampedHonestly(obs') /\ obs'.at <= now'
    <3>1. now' = now /\ obs.at <= now /\ StampedHonestly(obs)
      BY <2>3 DEF ReadDomain, StampsInv, Observations
    <3> QED
      BY <2>3, <3>1, ReadObserves DEF StampedHonestly
  <2> QED
    BY <2>1, <2>2, <2>3, ObservationsMove
<1>5. StampedHonestly(current') /\ StampedHonestly(scrape'.seen)
  BY <1>2, ObservationsMove DEF StampsInv, Observations
<1> QED
  BY <1>1, <1>4, <1>5 DEF StampsInv, Observations

LEMMA StampsImplied == TypeInv /\ StampsInv => FreshWhenShown
<1> SUFFICES ASSUME TypeInv, StampsInv
             PROVE  /\ ShownUtil # {} \/ ShownHosts # {} => Fresh(scrape.seen.hostRead)
                    /\ \A d \in ShownMemory : Fresh(scrape.seen.domains[d].read)
                    /\ ShownMemory \cup ShownUtil # {} => Fresh(scrape.seen.listed)
  BY DEF FreshWhenShown
<1>1. StampedHonestly(scrape.seen) /\ scrape.seen \in Observation
  BY DEF StampsInv, Observations, TypeInv, MonitorTypeOK
<1>2. ASSUME NEW d \in ShownMemory PROVE Fresh(scrape.seen.domains[d].read)
  <2>1. d \in Seen /\ scrape.seen.domains[d].state = "ready" /\ Fresh(scrape.seen.at)
    BY DEF ShownMemory, Sampled
  <2>2. scrape.seen.at <= scrape.seen.domains[d].read
    BY <1>1, <2>1 DEF StampedHonestly, Seen
  <2>3. scrape.seen.domains[d].read \in Times /\ scrape.seen.at \in Times
    BY <1>1, <2>1 DEF Observation, Observed, Seen
  <2>4. scrape.at \in Nat /\ scrape.seen.at \in Nat /\ scrape.seen.domains[d].read \in Nat
    BY <2>3, Bounds DEF TypeInv, MonitorTypeOK
  <2> QED
    BY <2>1, <2>2, <2>4, ConfigAssumption DEF Fresh
<1>3. ShownUtil # {} \/ ShownHosts # {} => Fresh(scrape.seen.hostRead)
  BY <1>1 DEF ShownUtil, ShownHosts, StampedHonestly
<1>4. ShownMemory \cup ShownUtil # {} => Fresh(scrape.seen.listed)
  BY <1>1 DEF ShownMemory, ShownUtil, Sampled, WorkloadFresh, StampedHonestly
<1> QED
  BY <1>2, <1>3, <1>4

(* No value and no owner is shown that is older than MaxAge at the time at *)
(* which the scrape looks at its clock, however long a hardware query, a   *)
(* lookup, a round or the scrape takes: a result is stamped when its query *)
(* starts, not when it returns (host.go), and an observation when its      *)
(* round starts (monitor.go).                                              *)
THEOREM ShownValuesAreFresh == Spec => []FreshWhenShown
<1>1. TypeInv /\ StampsInv /\ [Next]_vars => StampsInv'
  BY StampsStep
<1>2. TypeInv /\ StampsInv => FreshWhenShown
  BY StampsImplied
<1> QED
  BY <1>1, <1>2, InitStamps, TypesInvariant, PTL DEF Spec

-----------------------------------------------------------------------------
(* Counts.                                                                 *)
LEMMA InitPrepared == Init => PreparedInv
<1> SUFFICES ASSUME Init PROVE PreparedInv
  OBVIOUS
<1>1. ObservesPrepared(NoObservation)
  BY DEF ObservesPrepared, NoObservation
<1> QED
  BY <1>1 DEF Init, PreparedInv, Observations

LEMMA PreparedStep == TypeInv /\ PreparedInv /\ [Next]_vars => PreparedInv'
<1> SUFFICES ASSUME TypeInv, PreparedInv, [Next]_vars PROVE PreparedInv'
  OBVIOUS
<1>1. ObservesPrepared(NoObservation)
  BY DEF ObservesPrepared, NoObservation
<1>2. ObservesPrepared(obs')
  <2>1. CASE Snapshot
    <3>1. \A d \in MetricsSnapshot : token[d[1]] # 0
      BY DEF MetricsSnapshot, MetricsGeneration
    <3> QED
      BY <2>1, <3>1, SnapshotObserves DEF ObservesPrepared
  <2>2. ASSUME NEW d \in Domains, NEW state \in {"pending", "ready", "invalid"},
               ReadDomain(d, state)
        PROVE  ObservesPrepared(obs')
    <3>1. ObservesPrepared(obs)
      BY DEF PreparedInv, Observations
    <3> QED
      BY <2>2, <3>1, ReadObserves DEF ObservesPrepared
  <2> QED
    BY <1>1, <2>1, <2>2, ObservationsMove DEF PreparedInv, Observations
<1> QED
  BY <1>1, <1>2, ObservationsMove DEF PreparedInv, Observations

LEMMA PreparedImplied == PreparedInv => ReadyIsShown
<1> SUFFICES ASSUME PreparedInv, Answered, NEW d \in Seen
             PROVE  d \in Counted /\ CountedState(d) = "ready" <=> d \in ShownMemory
  BY DEF ReadyIsShown, Counted, ShownMemory
<1>1. scrape.seen.domains[d].token # 0
  BY DEF PreparedInv, Observations, ObservesPrepared, Seen
<1>2. d \in ShownMemory => d \in Counted /\ CountedState(d) = "ready"
  BY <1>1 DEF ShownMemory, Sampled, Current, Counted, CountedState
<1>3. CountedState(d) = "ready" => d \in ShownMemory
  BY DEF CountedState, ShownMemory, Sampled
<1> QED
  BY <1>2, <1>3

(* A domain is counted as ready exactly when its memory is in the same     *)
(* answer (collector.go): both look at the age of the observation, the age *)
(* of the ownership and the one reading of the token, and a Claim that was *)
(* observed had a token.                                                   *)
THEOREM CountsAgreeWithSamples == Spec => []ReadyIsShown
<1>1. TypeInv /\ PreparedInv /\ [Next]_vars => PreparedInv'
  BY PreparedStep
<1> QED
  BY <1>1, PreparedImplied, InitPrepared, TypesInvariant, PTL DEF Spec

-----------------------------------------------------------------------------
(* Labels.                                                                 *)
LEMMA InitLabels == Init => LabelsInv
<1> SUFFICES ASSUME Init PROVE LabelsInv
  OBVIOUS
<1>1. LabelsDiffer(NoObservation)
  BY DEF LabelsDiffer, NoObservation
<1> QED
  BY <1>1 DEF Init, LabelsInv, Observations

(* Of the domains of a snapshot that would have the same labels none is    *)
(* read.                                                                   *)
LEMMA ReadAlone ==
  ASSUME NEW D, NEW d \in D, NEW e \in D, d[2] = e[2], Owner(d[1]) = Owner(e[1]),
         ObservedState(d, D) \in ReadOrToRead, ObservedState(e, D) \in ReadOrToRead
  PROVE  d = e
<1>1. ObservedState(d, D) = "reading" /\ ObservedState(e, D) = "reading"
  BY MappedStates DEF ReadOrToRead
<1>2. MappedState(d) = "reading" /\ MappedState(e) = "reading"
  BY <1>1 DEF ObservedState
<1> QED
  BY <1>1, <1>2 DEF ObservedState, Collide

LEMMA LabelsStep == TypeInv /\ LabelsInv /\ [Next]_vars => LabelsInv'
<1> SUFFICES ASSUME TypeInv, LabelsInv, [Next]_vars PROVE LabelsInv'
  OBVIOUS
<1>1. LabelsDiffer(NoObservation)
  BY DEF LabelsDiffer, NoObservation
<1>2. LabelsDiffer(obs')
  <2>1. CASE Snapshot
    <3> SUFFICES ASSUME NEW d \in MetricsSnapshot, NEW e \in MetricsSnapshot,
                        d[2] = e[2], obs'.domains[d].pod = obs'.domains[e].pod,
                        obs'.domains[d].state \in ReadOrToRead,
                        obs'.domains[e].state \in ReadOrToRead
                 PROVE  d = e
      BY <2>1, SnapshotObserves DEF LabelsDiffer
    <3> QED
      BY <2>1, SnapshotObserves, ReadAlone
  <2>2. ASSUME NEW d \in Domains, NEW state \in {"pending", "ready", "invalid"},
               ReadDomain(d, state)
        PROVE  LabelsDiffer(obs')
    <3>1. LabelsDiffer(obs)
      BY DEF LabelsInv, Observations
    <3>2. /\ DOMAIN obs'.domains = DOMAIN obs.domains
          /\ \A e \in DOMAIN obs.domains :
               /\ obs'.domains[e].pod = obs.domains[e].pod
               /\ obs'.domains[e].state \in ReadOrToRead
                    => obs.domains[e].state \in ReadOrToRead
      BY <2>2, ReadObserves DEF ReadOrToRead
    <3> QED
      BY <3>1, <3>2 DEF LabelsDiffer
  <2> QED
    BY <1>1, <2>1, <2>2, ObservationsMove DEF LabelsInv, Observations
<1> QED
  BY <1>1, <1>2, ObservationsMove DEF LabelsInv, Observations

LEMMA LabelsImplied == LabelsInv => NoDuplicateSeries
BY DEF LabelsInv, Observations, LabelsDiffer, NoDuplicateSeries, ReadOrToRead, ShownMemory,
       ShownUtil, Sampled, Seen

(* No two samples of an answer have the same labels (monitor.go, Claims of *)
(* one pod on one card): both have become ambiguous before either is read, *)
(* for any number of Claims and whatever kubelet lists.                    *)
THEOREM SeriesAreDistinct == Spec => []NoDuplicateSeries
<1>1. TypeInv /\ LabelsInv /\ [Next]_vars => LabelsInv'
  BY LabelsStep
<1> QED
  BY <1>1, LabelsImplied, InitLabels, TypesInvariant, PTL DEF Spec

-----------------------------------------------------------------------------
(* Memory and lifetimes.                                                   *)
LEMMA InitMemory == Init => MemoryInv
<1> SUFFICES ASSUME Init PROVE MemoryInv
  OBVIOUS
<1>1. ASSUME NEW d \in Domains, file[d].st # "absent"
      PROVE  file[d].life = token[d[1]] /\ token[d[1]] # 0
  <2>1. d[1] \in Claims
    BY DEF Domains
  <2> QED
    BY <1>1, <2>1 DEF Init
<1>2. FilesInv
  BY <1>1 DEF Init, FilesInv
<1>3. DOMAIN NoObservation.domains = {} /\ DOMAIN scrape.versions = {}
  BY DEF Init, NoObservation
<1> QED
  BY <1>2, <1>3 DEF Init, MemoryInv, Observations

(* What a step does to lifetimes: a new token is greater than every token  *)
(* before it, and a lifetime that stays in a file is known for ever.       *)
LEMMA LifetimesMove ==
  TokensKnown /\ FilesInv /\ [Next]_vars =>
    /\ last' \in Nat /\ last <= last' /\ left \subseteq left'
    /\ \A c \in Claims : token'[c] \in {token[c], 0, last + 1}
<1> SUFFICES ASSUME TokensKnown, FilesInv, [Next]_vars
             PROVE  /\ last' \in Nat /\ last <= last' /\ left \subseteq left'
                    /\ \A c \in Claims : token'[c] \in {token[c], 0, last + 1}
  OBVIOUS
<1>1. ASSUME NEW c \in Claims, NEW p \in Pods, Prepared(c, p)
      PROVE  /\ last' = last + 1 /\ left' = left
             /\ \A b \in Claims : token'[b] \in {token[b], last + 1}
  BY <1>1 DEF Prepared, TokensKnown
<1>2. ASSUME NEW c \in Claims, UnprepareEnds(c) \/ UnprepareAgain(c)
      PROVE  last' = last /\ left' = left /\ \A b \in Claims : token'[b] \in {token[b], 0}
  BY <1>2 DEF UnprepareEnds, UnprepareAgain, Lifetimes!End, TokensKnown
<1>3. ASSUME NEW removed \in BOOLEAN, UnprepareReturns(removed)
      PROVE  UNCHANGED <<token, last>> /\ left \subseteq left'
  BY <1>3 DEF UnprepareReturns, FilesRemoved, FilesInv
<1>4. Tick \/ Kubelet \/ Files \/ Hardware \/ Poll \/ Run \/ Scrape \/ Close \/ UNCHANGED vars
        => UNCHANGED <<token, last, left>>
  BY DEF Tick, Kubelet, RowAppears, RowDisappears, Files, FileGrows, Hardware, HostReturns,
         Poll, PollAgain, PollStops, Run, ReceiveResult, ReceiveTick, RunStops, ListWorkloads,
         Snapshot, ReadDomain, Publish, Scrape, ScrapeStarts, ScrapeReadsToken, ScrapeReturns,
         Close, CloseCancels, CloseShutsDown, CloseReturns, CloseTimesOut, vars, lifeVars
<1> QED
  BY <1>1, <1>2, <1>3, <1>4 DEF Next, Work, Lives, TokensKnown

(* Unprepare leaves no file of the lifetime that it ended but the ones it  *)
(* failed to remove, and only then can the Claim be prepared again.        *)
LEMMA FilesStep == TokensKnown /\ TypeInv /\ FilesInv /\ [Next]_vars => FilesInv'
<1> SUFFICES ASSUME TokensKnown, TypeInv, FilesInv, [Next]_vars PROVE FilesInv'
  OBVIOUS
<1>0. /\ token \in [Claims -> Tokens] /\ ending \in Claims \cup {NoClaim}
      /\ file \in [Domains -> [st : {"absent", "short", "pending", "ready"}, life : Tokens]]
      /\ \A d \in Domains : d[1] \in Claims
  BY DEF TypeInv, MonitorTypeOK, Domains
<1>1. ASSUME NEW c \in Claims, NEW p \in Pods, Prepared(c, p) PROVE FilesInv'
  <2>1. /\ ending = NoClaim /\ token[c] = 0 /\ token' = [token EXCEPT ![c] = last + 1]
        /\ UNCHANGED <<ending, left, file>>
    BY <1>1 DEF Prepared, podVars
  <2> QED
    BY <1>0, <2>1, ConfigAssumption DEF FilesInv
<1>2. ASSUME NEW c \in Claims, UnprepareEnds(c) \/ UnprepareAgain(c) PROVE FilesInv'
  <2>1. ending = NoClaim /\ ending' = c /\ UNCHANGED <<left, file>>
    BY <1>2 DEF UnprepareEnds, UnprepareAgain, podVars
  <2>2. token' = [token EXCEPT ![c] = 0]
    BY <1>0, <1>2 DEF UnprepareEnds, UnprepareAgain, Lifetimes!End
  <2> QED
    BY <1>0, <2>1, <2>2, ConfigAssumption DEF FilesInv
<1>3. ASSUME NEW removed \in BOOLEAN, UnprepareReturns(removed) PROVE FilesInv'
  <2>1. FilesRemoved(ending, removed) /\ ending # NoClaim /\ ending' = NoClaim /\ token' = token
    BY <1>3 DEF UnprepareReturns
  <2>2. CASE removed
    <3>1. left' = left
      BY <2>1, <2>2 DEF FilesRemoved
    <3>2. \A d \in Domains : /\ d[1] = ending => file'[d].st = "absent"
                             /\ d[1] # ending => file'[d] = file[d]
      BY <2>1, <2>2 DEF FilesRemoved
    <3> QED
      BY <2>1, <3>1, <3>2 DEF FilesInv
  <2>3. CASE ~ removed
    <3>1. /\ file' = file /\ 0 \notin left' /\ left \subseteq left'
          /\ \A d \in Domains : d[1] = ending /\ file[d].life # 0 => file[d].life \in left'
      BY <2>1, <2>3 DEF FilesRemoved, FilesInv
    <3> QED
      BY <2>1, <3>1 DEF FilesInv
  <2> QED
    BY <2>2, <2>3
<1>4. ASSUME NEW d \in Domains, FileGrows(d) PROVE FilesInv'
  <2>1. UNCHANGED <<token, ending, left>> /\ token[d[1]] # 0
    BY <1>4 DEF FileGrows, lifeVars
  <2>2. /\ \A e \in Domains : e # d => file'[e] = file[e]
        /\ file'[d].life = (IF file[d].st = "absent" THEN token[d[1]] ELSE file[d].life)
    BY <1>0, <1>4 DEF FileGrows
  <2> QED
    BY <2>1, <2>2 DEF FilesInv
<1>5. Tick \/ Kubelet \/ Hardware \/ Poll \/ Run \/ Scrape \/ Close \/ UNCHANGED vars
        => UNCHANGED <<token, ending, left, file>>
  BY DEF Tick, Kubelet, RowAppears, RowDisappears, Hardware, HostReturns,
         Poll, PollAgain, PollStops, Run, ReceiveResult, ReceiveTick, RunStops, ListWorkloads,
         Snapshot, ReadDomain, Publish, Scrape, ScrapeStarts, ScrapeReadsToken, ScrapeReturns,
         Close, CloseCancels, CloseShutsDown, CloseReturns, CloseTimesOut, vars, lifeVars,
         podVars
<1>6. CASE UNCHANGED <<token, ending, left, file>>
  BY <1>6 DEF FilesInv
<1> QED
  BY <1>1, <1>2, <1>3, <1>4, <1>5, <1>6 DEF Next, Work, Lives, Files

(* A token that vouches for memory does so as long as it is its Claim's.   *)
LEMMA VouchesOn ==
  ASSUME TokensKnown, FilesInv, [Next]_vars, NEW o, NEW d, d[1] \in Claims,
         o.domains[d].token \in 1 .. last, Vouches(o, d, token[d[1]], left)
  PROVE  o.domains[d].token \in 1 .. last' /\ Vouches(o, d, token'[d[1]], left')
<1>1. /\ last \in Nat /\ last' \in Nat /\ last <= last' /\ left \subseteq left'
      /\ token'[d[1]] \in {token[d[1]], 0, last + 1}
  BY LifetimesMove DEF TokensKnown
<1>2. o.domains[d].token # 0 /\ o.domains[d].token # last + 1
  BY <1>1
<1>3. o.domains[d].token \in 1 .. last'
  BY <1>1
<1> QED
  BY <1>1, <1>2, <1>3 DEF Vouches

LEMMA MemoryStep == TokensKnown /\ TypeInv /\ MemoryInv /\ [Next]_vars => MemoryInv'
<1> SUFFICES ASSUME TokensKnown, TypeInv, MemoryInv, [Next]_vars PROVE MemoryInv'
  OBVIOUS
<1> DEFINE Known(o) == \A d \in DOMAIN o.domains :
                         o.domains[d].token \in 1 .. last' /\ Vouches(o, d, token'[d[1]], left')
<1>1. FilesInv /\ FilesInv'
  BY FilesStep DEF MemoryInv
<1>2. \A o \in Observations : DOMAIN o.domains \subseteq Domains
  BY DEF TypeInv, MonitorTypeOK, Observation, Observations
<1>3. \A d \in Domains : d[1] \in Claims
  BY DEF Domains
<1>4. ASSUME NEW o \in Observations PROVE Known(o)
  BY <1>1, <1>2, <1>3, VouchesOn DEF MemoryInv
<1>5. Known(NoObservation)
  BY DEF NoObservation
<1>6. Known(obs')
  <2>1. CASE Snapshot
    <3>1. UNCHANGED <<token, last>>
      BY <2>1 DEF Snapshot, lifeVars
    <3>2. \A d \in MetricsSnapshot : d \in Domains /\ token[d[1]] # 0
      BY DEF MetricsSnapshot, MetricsGeneration
    <3>3. \A d \in MetricsSnapshot : token[d[1]] \in 1 .. last
      BY <1>3, <3>2 DEF TokensKnown
    <3>4. \A d \in MetricsSnapshot : ObservedState(d, MetricsSnapshot) # "ready"
      BY MappedStates
    <3> QED
      BY <2>1, <3>1, <3>3, <3>4, SnapshotObserves DEF Vouches
  <2>2. ASSUME NEW d \in Domains, NEW state \in {"pending", "ready", "invalid"},
               ReadDomain(d, state)
        PROVE  Known(obs')
    <3>1. UNCHANGED <<token, last, left>>
      BY <2>2 DEF ReadDomain, lifeVars
    <3>2. Known(obs)
      BY <1>4 DEF Observations
    <3>3. obs.domains[d].token \in 1 .. last
      BY <2>2, ReadObserves DEF MemoryInv, Observations
    <3>4. state = "ready" /\ token[d[1]] # 0 => file[d].life \in {token[d[1]]} \cup left
      BY <1>1, <2>2, ReadObserves DEF FilesInv
    <3>5. Vouches(obs', d, token'[d[1]], left')
      BY <2>2, <3>1, <3>3, <3>4, ReadObserves DEF Vouches
    <3>6. \A e \in DOMAIN obs.domains \ {d} : Vouches(obs', e, token'[e[1]], left')
      BY <2>2, <3>2, ReadObserves DEF Vouches
    <3> QED
      BY <2>2, <3>2, <3>5, <3>6, ReadObserves
  <2> QED
    BY <1>4, <1>5, <2>1, <2>2, ObservationsMove DEF Observations
<1>7. Known(current') /\ Known(scrape'.seen)
  BY <1>4, <1>5, ObservationsMove DEF Observations
<1>8. ASSUME NEW d \in Seen', d[1] \in DOMAIN scrape'.versions
      PROVE  Vouches(scrape'.seen, d, scrape'.versions[d[1]], left')
  <2>1. left \subseteq left'
    BY <1>1, LifetimesMove
  <2>2. CASE scrape' = scrape
    BY <1>8, <2>1, <2>2 DEF MemoryInv, Vouches, Seen
  <2>3. CASE ScrapeStarts \/ ScrapeReturns
    <3>1. DOMAIN scrape'.versions = {}
      BY <2>3 DEF ScrapeStarts, ScrapeReturns
    <3> QED
      BY <1>8, <3>1
  <2>4. ASSUME NEW c \in Claims, ScrapeReadsToken(c)
        PROVE  Vouches(scrape'.seen, d, scrape'.versions[d[1]], left')
    <3>1. /\ scrape' = [scrape EXCEPT !.versions =
               [e \in DOMAIN @ \cup {c} |-> IF e = c THEN token[c] ELSE @[e]]]
          /\ UNCHANGED <<token, left>>
      BY <2>4 DEF ScrapeReadsToken, MetricsGeneration, lifeVars
    <3>2. scrape'.seen = scrape.seen
      BY <3>1
    <3>3. CASE d[1] = c
      <4>1. scrape'.versions[c] = token[c]
        BY <1>8, <3>1, <3>3
      <4> QED
        BY <1>8, <3>1, <3>2, <3>3, <4>1 DEF MemoryInv, Observations, Seen
    <3>4. CASE d[1] # c
      <4>1. d[1] \in DOMAIN scrape.versions /\ scrape'.versions[d[1]] = scrape.versions[d[1]]
        BY <1>8, <3>1, <3>4
      <4> QED
        BY <1>8, <3>1, <3>2, <4>1 DEF MemoryInv, Seen
    <3> QED
      BY <3>3, <3>4
  <2>5. scrape' = scrape \/ Scrape
    BY DEF Next, Work, Tick, Lives, Prepared, UnprepareEnds, UnprepareAgain, UnprepareReturns,
           Kubelet, RowAppears, RowDisappears, Files, FileGrows, Hardware, HostReturns, Poll,
           PollAgain, PollStops, Run, ReceiveResult, ReceiveTick, RunStops, ListWorkloads,
           Snapshot, ReadDomain, Publish, Close, CloseCancels, CloseShutsDown, CloseReturns,
           CloseTimesOut, vars
  <2> QED
    BY <2>2, <2>3, <2>4, <2>5 DEF Scrape
<1> QED
  BY <1>1, <1>4, <1>6, <1>7, <1>8 DEF MemoryInv, Observations

(* An answer shows memory only if the token that was read for it is the    *)
(* one it was observed with.                                               *)
LEMMA MemoryImplied == MemoryInv => MemoryOfLifetime
<1> SUFFICES ASSUME MemoryInv, Answered, NEW d \in ShownMemory
             PROVE  scrape.seen.domains[d].life \in {scrape.seen.domains[d].token} \cup left
  BY DEF MemoryOfLifetime
<1>1. d \in Seen /\ scrape.seen.domains[d].state = "ready" /\ Current(d)
  BY DEF ShownMemory, Sampled
<1>2. d[1] \in DOMAIN scrape.versions
  BY <1>1 DEF Answered, Unread
<1> QED
  BY <1>1, <1>2 DEF MemoryInv, Vouches, Current

(* Memory that is shown was written in the lifetime whose token vouches    *)
(* for it (collector.go, metricsToken): the file is found by the Claim's   *)
(* UID alone, is read without the state lock, and the same UID may be      *)
(* prepared again; what saves the answer is that Unprepare takes the token *)
(* away before the file and that a token never returns.                    *)
THEOREM ShownMemoryIsOfItsLifetime == Spec => []MemoryOfLifetime
<1>1. TokensKnown /\ TypeInv /\ MemoryInv /\ [Next]_vars => MemoryInv'
  BY MemoryStep
<1>2. IInv => TokensKnown
  BY DEF IInv
<1> QED
  BY <1>1, <1>2, MemoryImplied, InitMemory, TypesInvariant, PTL DEF Spec
=============================================================================
