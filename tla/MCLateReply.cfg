SPECIFICATION Spec
CONSTANTS
  c1 = c1
  c2 = c2
  p1 = p1
  p2 = p2
  Null = Null
  NoPid = NoPid
  Conn = {c1}
  Pid = {p1}
  RequestParts = 1
  MaxAhead = 1
  MaxWrite = 1
  MaxOut = 1
  Request = {"post"}
  Failing = {}
  StatusMessages = {200, 400, 500}
  EventListSize = 10
INVARIANT ReplyGoesToSocket
