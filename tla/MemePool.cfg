CONSTANTS
  Threads = {t1, t2}
  MaxId = 2
  Contents = {x, y}
  MaxConnections = 2
  Created = {x}
  Edited = {y}
  SearchQueries <- MCSearchQueries
  NoRow = NoRow
  Garbage = Garbage
  NoCall = NoCall
  NoResult = NoResult
  NoRequest = NoRequest
  NoReply = NoReply
  NotFound = NotFound
SPECIFICATION FairHandlerSpec
INVARIANTS
  HandlerTypeOK
  ConnectionsCoverCalls
  CreateTellsTheTruth
  EditRedirectMeansEdited
PROPERTIES
  ImplementsMemeTable
  StableUnderLock
  
