CONSTANTS
  ThreadPoolSize = 0
  Conn = {c1, c2, c3}
  Resettable = {c1, c2, c3}
  MaxFds = 3
  Handlers <- DevHandlers
  Requests <- DevRequests
  UpstreamCodes = {}
  PromisedCodes <- DocumentedCodes
  NoConn = NoConn
  NoRequest = NoRequest
SYMMETRY Symmetry
SPECIFICATION Spec
INVARIANTS
  CountersMatchReplies
  ExactReport
  
  
