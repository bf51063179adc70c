------------------------- MODULE MC_ZipCacheRouter -------------------------
(* Model-checking instances of ZipCacheRouter.  The tier runs use small    *)
(* objects around the default thresholds; the eviction run uses objects    *)
(* large enough to fill a 1 MB DRAM budget in two PUTs.                    *)
EXTENDS ZipCacheRouter, TLC

\* Two heap pointers above 4 GiB.
MCPtrs == {<<1, 5>>, <<1, -3>>}

\* 100 is TINY; 3000 is LARGE under the defaults and MEDIUM under <<128, 4096>>.
MCTierSizes == {100, 3000}
MCTierThresholds == {<<128, 2048>>, <<128, 4096>>}

\* Room for two padded 3000-byte objects: a third append writes short.
MCTierFileBytes == 2 * 4096

\* 0 is refused by zipcache_put; 500000 is MEDIUM under <<128, 600000>>,
\* and two of them pass 90% of 1 MB.  <<0, 64>> is refused by set_thresholds.
MCEvictPtrs == {<<1, 5>>}
MCEvictSizes == {0, 500000}
MCEvictThresholds == {<<128, 600000>>, <<0, 64>>}

\* 1 MB of DRAM, as zipcache_init(1, path) configures.
MCDramCapacity == 1 * 1024 * 1024

MCClientSymmetry == Permutations(Clients)
=============================================================================
