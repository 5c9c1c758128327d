---------------------------- MODULE ClaimLifetimes ----------------------------
(***************************************************************************)
(* What the driver promises the monitor about Claims, with no files, locks *)
(* or devices: each prepared lifetime of a Claim has one token, a token    *)
(* stands for one lifetime only, and no token is handed out twice by one   *)
(* process.  DeviceState implements it (state.go, setPreparedClaims and    *)
(* metricsGeneration); the monitor relies on nothing else.                 *)
(***************************************************************************)
EXTENDS Naturals

CONSTANT Claims

VARIABLES
  token,  \* the token of a Claim's current lifetime, 0 when it has none
  last    \* the highest token handed out by this process

lifetimeVars == <<token, last>>

Init == token = [c \in Claims |-> 0] /\ last = 0

(* Lifetimes begin with tokens that were never seen before, one each.      *)
Begin(C) ==
  /\ \A c \in C : token[c] = 0 /\ token'[c] > last /\ token'[c] <= last'
  /\ \A c, d \in C : token'[c] = token'[d] => c = d
  /\ \A c \in Claims \ C : token'[c] = token[c]

End(c) ==
  /\ token[c] # 0
  /\ token' = [token EXCEPT ![c] = 0]
  /\ UNCHANGED last

(* The process is gone, and with it everybody who holds one of its tokens. *)
Restart ==
  /\ token' = [c \in Claims |-> 0]
  /\ last' = 0

Next ==
  \/ \E C \in (SUBSET Claims) \ {{}} : Begin(C)
  \/ \E c \in Claims : End(c)
  \/ Restart

Spec == Init /\ [][Next]_lifetimeVars
=============================================================================
