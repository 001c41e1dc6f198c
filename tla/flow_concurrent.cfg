CONSTANTS
  alice = alice bob = bob room = room r1 = r1 r2 = r2
  na = na nb = nb nc = nc end = end ca = ca cb = cb
  f1 = f1 f2 = f2 w1 = w1 w2 = w2 e1 = e1 e2 = e2
  None = None FLOW_END = end
  Nodes <- MCNodes Roots = {r1} Commands = {ca, cb} CommandOf <- MCCommandOf
  RoomOf <- MCRoomOf AutoTriggers <- MCTriggers
  Senders = {alice, bob} Rooms = {room} RoomFlows = {r1}
  Children <- MCChildren AutoEdges <- MCAutoEdges Hints <- QuietNode
  Flows = {f1} Workers = {w1, w2} Executors = {e1, e2} MaxPending = 1
SPECIFICATION Spec
SYMMETRY FlowSymmetry
INVARIANTS InFlightOnce WaitingFlowsAreTold StaysInGraph
PROPERTY OnlyRequestorAdvances
