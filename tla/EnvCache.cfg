CONSTANTS
  w1 = w1
  w2 = w2
  e1 = e1
  i1 = i1
  i2 = i2
  Workers <- MCWorkers
  Envs <- MCEnvs
  Instances <- MCInstances
  EnvOf <- MCEnvOf
  Configs <- MCConfigs
  Faults = {"op", "pack", "kill"}
  MaxAttempts = 3
  MaxKills = 1

SPECIFICATION Spec

SYMMETRY Symmetry

CHECK_DEADLOCK FALSE

INVARIANT UnusableVenvExplained
INVARIANT RepoFromCacheInstalled
INVARIANT ForceRepairs
INVARIANT NothingLeftBehind
