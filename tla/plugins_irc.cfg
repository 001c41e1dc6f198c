CONSTANTS
  a = a b = b c = c d = d e = e f = f ghost = ghost w = w good = good bad = bad None = None
  Names = {b, c} Plugins = {b, c} Deps <- MCDeps
  Silent = {} Stubborn = {} Excluded = {} Incompatible = {} MaxBlacklist = 1
  Configurable = {c} Configs = {good, bad} Valid <- MCValid Welcomes = {w}
SPECIFICATION Spec
INVARIANT ActiveHasStoredConfig
PROPERTIES ActivatedWithDependencies BootSkipsBlacklisted
