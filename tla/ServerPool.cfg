CONSTANTS
  ThreadPoolSize = 2
  Conn = {c1, c2, c3}
  Resettable = {c1, c2, c3}
  MaxFds = 2
  Handlers <- PartialHandlers
  Requests <- FewRequests
  UpstreamCodes = {}
  PromisedCodes <- DocumentedCodes
  NoConn = NoConn
  NoRequest = NoRequest
SYMMETRY Symmetry
SPECIFICATION Spec
INVARIANTS
  TypeOK
  AcceptLedger
  SessionCustody
  ServedMatchesReplies
  CountersNotAhead
PROPERTIES
  ImplementsService
