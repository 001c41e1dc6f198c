CONSTANTS
  a = a b = b c = c d = d e = e f = f ghost = ghost w = w good = good bad = bad None = None
  Names = {a, b, c, d, e, f, ghost} Plugins = {a, b, c, d, e, f, ghost} Deps <- MCDeps
  Silent = {a} Stubborn = {b} Excluded = {ghost} Incompatible = {d} MaxBlacklist = 2
  Configurable = {c} Configs = {good, bad} Valid <- MCValid Welcomes = {}
SPECIFICATION FairSpec
INVARIANTS TypeOK CyclicNeverActive
PROPERTY OperationsEnd
