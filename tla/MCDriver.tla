------------------------------ MODULE MCDriver ------------------------------
(* The template tables of MCDeviceState for the driver process.            *)
EXTENDS Driver, TLC

OneTemplate == {"vir01"}

TwoTemplates == {"vir01", "vir02"}

MCVir01 == {"vir01"}

MCAICore == [t \in Templates |-> IF t = "vir02" THEN 8 ELSE 4]

MCMemory == [t \in Templates |-> IF t = "vir02" THEN 12 ELSE 8]

ClaimSymmetry == Permutations(Claims)
=============================================================================
