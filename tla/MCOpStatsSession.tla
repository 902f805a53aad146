-------------------------- MODULE MCOpStatsSession --------------------------
(* OpStatsSession for TLC: two hosts, two requests, one repeated attempt.  *)
EXTENDS OpStatsSession, TLC

CONSTANTS h1, h2, h3, r1, r2

MCHosts == {h1, h2}
MCThreeHosts == {h1, h2, h3}
MCRequests == {r1, r2}

(* Any one host, or all that have arrived. *)
MCSelections == (SUBSET MCHosts) \ {{}}

(* Overlapping selections: any two of three hosts. *)
MCPairs == {{h1, h2}, {h1, h3}, {h2, h3}}

MCOneRequest == {r1}

(* Hosts and requests are interchangeable; the runs check safety only. *)
MCSymmetry3 == Permutations(MCThreeHosts) \cup Permutations(MCRequests)
MCSymmetry == Permutations(MCHosts) \cup Permutations(MCRequests)
=============================================================================
