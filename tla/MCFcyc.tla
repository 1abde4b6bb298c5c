------------------------------- MODULE MCFcyc -------------------------------
(***************************************************************************)
(* Instances of Fcyc: settings of a few samples.                           *)
(***************************************************************************)
EXTENDS Fcyc

Setting(machine, kbest, maxsamples, epsilon,
        compensate, clear_cache, cache_bytes, block) ==
  [machine |-> machine, kbest |-> kbest, maxsamples |-> maxsamples,
   epsilon |-> epsilon, compensate |-> compensate, clear_cache |-> clear_cache,
   cache_bytes |-> cache_bytes, cache_block |-> block]

\* Three best of four, with a tolerance and without; samples that are compensated;
\* the cache cleared through buffers of two sizes, in blocks of two; fewer samples
\* than are kept; the other machines.
SmallConfigs ==
  {Setting("i386", k, 4, eps, FALSE, FALSE, 8, 4) : k \in {2, 3}, eps \in {0, 1}}
    \cup {Setting("i386", 1, 1, 1, c, TRUE, bytes, 4) : c \in BOOLEAN, bytes \in {8, 16}}
    \cup {Setting("i386", 1, 1, 1, FALSE, TRUE, 8, 32)}
    \cup {Setting("i386", 2, 2, 1, TRUE, b, 8, 4) : b \in BOOLEAN}
    \cup {Setting("i386", 1, 2, 1, TRUE, TRUE, 8, 4),
           Setting("i386", 3, 2, 1, FALSE, FALSE, 8, 4),
           Setting("alpha", 2, 3, 1, FALSE, FALSE, 8, 4)}
    \cup {Setting("other", 2, 2, 1, c, FALSE, 8, 4) : c \in BOOLEAN}

=============================================================================
