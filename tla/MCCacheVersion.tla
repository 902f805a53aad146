--------------------------- MODULE MCCacheVersion ---------------------------
(* Small instances of CacheVersion: two tools with caches of their own,    *)
(* and memory_viewer, which reads the HLO files that ClearCacheFiles does  *)
(* not know and whose options leave use_saved_result out.                  *)
EXTENDS CacheVersion, TLC

CONSTANTS overview_page, trace_viewer, memory_viewer,
          OP_STATS, SSTABLE, HLO, j1, j2, j3

MCTools   == {overview_page, trace_viewer, memory_viewer}
MCCaches  == {OP_STATS, SSTABLE, HLO}
MCCacheOf == [t \in MCTools |-> IF t = overview_page THEN OP_STATS
                              ELSE IF t = trace_viewer THEN SSTABLE ELSE HLO]
MCCleared == {OP_STATS, SSTABLE}
MCForgetful == {memory_viewer}
MCJobs    == {j1, j2, j3}
MCTwoJobs == {j1, j2}
MCVersions == {8, 9, 10}
MCTwoVersions == {8, 9}

(* No step and no property reads anything of a job that has ended but that *)
(* it has: its other variables are left out when states are compared.      *)
MCView ==
  <<plugin, versionFile, cache, pc, blame, faults,
    [j \in Jobs |-> IF pc[j] \in Ended THEN <<>>
                    ELSE <<task[j], tool[j], saved[j], todo[j], rest[j],
                           answer[j]>>]>>

MCSymmetry == Permutations(MCJobs)
=============================================================================
