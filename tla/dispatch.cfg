CONSTANTS
  plain = plain admin = admin regex = regex alice = alice x = x y = y
  w1 = w1 w2 = w2 t1 = t1 None = None
  Users = {alice} Commands = {plain, admin, regex} Args = {x, y}
  AdminOnly = {admin} Regex = {regex} Historize = {plain, regex}
  NFilters = 1 MaxHistory = 2 Workers = {w1, w2} FlowThreads = {t1} AutoCommands = {plain} MaxQueue = 2
SPECIFICATION FairSpec
INVARIANTS TypeOK AdminExclusive  HistoryDistinct
PROPERTIES DispatcherReturns ImplementsExclusion
