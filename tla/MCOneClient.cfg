SPECIFICATION FairSpec
CONSTANTS
  c1 = c1
  c2 = c2
  p1 = p1
  p2 = p2
  Null = Null
  NoPid = NoPid
  Conn = {c1}
  Pid = {p1}
  RequestParts = 2
  MaxAhead = 1
  MaxWrite = 1
  MaxOut = 1
  Request = {"static", "get", "post"}
  Failing = {"fork"}
  StatusMessages = {200, 400, 500}
  EventListSize = 2
INVARIANTS
  TypeOK
  PipesClosedInTime
  RequestsAccounted
PROPERTIES
  CgiReplyComplete
  OverdueCloses
