CONSTANTS
  Threads = {t1, t2, t3, t4}
  Clients = {c1, c2}
  MaxFds = 9
  Deep = c1
  Prefixes <- MCPrefixes
  Servers <- MCServers
  Self <- MCSelf
  Reachable <- MCReachable
  Responses <- MCResponses
  OwnResponses <- MCOwnResponses
  Nobody = Nobody
  NoResponse = NoResponse
SPECIFICATION FairSpec
INVARIANTS
  TypeOK
  OneServerPerRequest
  
  FirstCallGoesToBackend

  
