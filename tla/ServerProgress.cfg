CONSTANTS
  ThreadPoolSize = 2
  Conn = {c1, c2, c3}
  Resettable = {}
  MaxFds = 3
  Handlers <- DevHandlers
  Requests <- OneRequest
  UpstreamCodes = {}
  PromisedCodes <- DocumentedCodes
  NoConn = NoConn
  NoRequest = NoRequest
SPECIFICATION FairSpec
PROPERTIES
  Answered
  InterruptStops
