---------------------------- MODULE MCVNPUSlices ----------------------------
(* Two of the default templates of createDefaultTemplates, and a second    *)
(* template of the size of vir01, as a template file may have: then the    *)
(* best template is not unique.                                            *)
EXTENDS VNPUSlices

MCTemplates == {"vir01", "vir01_b", "vir02"}

MCVir01 == {"vir01", "vir01_b"}

MCAICore == [t \in MCTemplates |-> IF t = "vir02" THEN 8 ELSE 4]

MCMemory == [t \in MCTemplates |-> IF t = "vir02" THEN 12 ELSE 8]
=============================================================================
