---------------------------- MODULE MCDeviceState ----------------------------
(* Small template tables: one of vir01 only, and one with vir02, which a   *)
(* card that has released a slice no longer supports.                      *)
EXTENDS DeviceState, TLC

OneTemplate == {"vir01"}

TwoTemplates == {"vir01", "vir02"}

MCVir01 == {"vir01"}

MCAICore == [t \in Templates |-> IF t = "vir02" THEN 8 ELSE 4]

MCMemory == [t \in Templates |-> IF t = "vir02" THEN 12 ELSE 8]

(* Claims are interchangeable when none of them is a legacy one.           *)
ClaimSymmetry == Permutations(Claims)
=============================================================================
