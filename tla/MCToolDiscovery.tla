--------------------------- MODULE MCToolDiscovery ---------------------------
(* ToolDiscovery for TLC: a host without HLO modules and one with two.     *)
EXTENDS ToolDiscovery, TLC

CONSTANTS h1, h2, m1, m2, r1, r2

MCHosts == {h1, h2}
MCModules == {m1, m2}
MCHloOf == [h \in MCHosts |-> IF h = h1 THEN {} ELSE MCModules]
MCRequests == {r1, r2}

(* Requests, and modules of one host, are interchangeable. *)
MCSymmetry == Permutations(MCRequests) \cup Permutations(MCModules)

(* No step and no property reads anything of a request that has ended but  *)
(* that it has.                                                            *)
MCView ==
  <<dirVars, pc, late, stopped, faults,
    [r \in Requests |-> IF pc[r] \in Ended THEN <<>>
                        ELSE <<wants[r], rec[r], base[r], todo[r], found[r]>>]>>
=============================================================================
