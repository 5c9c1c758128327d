------------------------------ MODULE MCMonitor ------------------------------
(* Constants of Monitor for TLC: every Claim and every pod uses all cards. *)
EXTENDS Monitor

EveryCard == [c \in Claims |-> Cards]
AllUsed   == [p \in Pods |-> Cards]
=============================================================================
