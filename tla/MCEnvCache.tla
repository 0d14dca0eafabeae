----------------------------- MODULE MCEnvCache -----------------------------
(***************************************************************************)
(* One image with two instances, prepared by two workers, each of which    *)
(* may be given either instance, under the default configuration, one that *)
(* rebuilds, one without repository archives and one that keeps nothing.   *)
(***************************************************************************)
EXTENDS EnvCache, TLC

CONSTANTS w1, w2, e1, i1, i2

MCWorkers == {w1, w2}
MCEnvs == {e1}
MCInstances == {i1, i2}
MCEnvOf == [i \in MCInstances |-> e1]

Config(force, delete, cacheGit) ==
  [force |-> force, delete |-> delete, cacheGit |-> cacheGit]

MCConfigs ==
  {Config(FALSE, FALSE, TRUE), Config(TRUE, FALSE, TRUE),
   Config(FALSE, FALSE, FALSE), Config(FALSE, TRUE, TRUE)}

Symmetry == Permutations(MCWorkers) \union Permutations(MCInstances)
=============================================================================
