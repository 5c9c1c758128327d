----------------------------- MODULE MCShmemRead -----------------------------
(* Two slots; pids of three bits, two positive ones and a negative one;    *)
(* two usages of 2 do not fit.                                             *)
EXTENDS ShmemRead

MCPids == {0, 1, 2, 7}

MCUsages == {0, 2}

MCQuotas == {0, 3}
=============================================================================
