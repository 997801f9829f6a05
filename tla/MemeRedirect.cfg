CONSTANTS
  Threads = {t1, t2}
  MaxId = 2
  Contents = {x, y}
  MaxConnections = 3
  Created = {x, y}
  Edited = {x, y}
  SearchQueries <- MCSearchQueries
  NoRow = NoRow
  Garbage = Garbage
  NoCall = NoCall
  NoResult = NoResult
  NoRequest = NoRequest
  NoReply = NoReply
  NotFound = NotFound
SPECIFICATION HandlerSpec
INVARIANTS
  RedirectNamesNewMeme
