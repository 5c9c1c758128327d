----------------------------- MODULE MCClaimConfigs ----------------------------
(* Values of configurations and capacities for TLC: sharing that is absent, *)
(* implied, complete, mixed and invalid; capacities that are whole, broken  *)
(* and out of range, with two bytes to the MiB.                            *)
EXTENDS ClaimConfigs

Npu(strategy, interval, count, t) ==
  [strategy |-> strategy, interval |-> interval, count |-> count, template |-> t]

MCNpuConfigs ==
  {Npu(Nil, Nil, Nil, "t"), Npu("SpacePartitioning", Nil, Nil, NoTemplate),
   Npu("TimeSlicing", "Short", 2, "u"), Npu("SpacePartitioning", Nil, -1, "unknown"),
   Npu("unknown", Nil, Nil, NoTemplate)}

MCTemplateConfigs == {Npu(Nil, Nil, Nil, "t"), Npu(Nil, Nil, Nil, "u")}

Q(memory, cores) == [memory |-> memory, cores |-> cores]

MCQuotas == {Q(2, 50), Q(4, 50), Q(3, 50), Q(2, 0)}

MCCapacity == Q(8, 100)
=============================================================================
