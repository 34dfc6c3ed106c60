SPECIFICATION Spec
CONSTANTS
  c1 = c1
  c2 = c2
  p1 = p1
  p2 = p2
  Null = Null
  NoPid = NoPid
  Conn = {c1}
  Pid = {p1, p2}
  RequestParts = 1
  MaxAhead = 1
  MaxWrite = 2
  MaxOut = 2
  Request = {"static", "get", "post"}
  Failing = {"pipe", "fork"}
  StatusMessages = {200, 400, 500}
  EventListSize = 10
INVARIANTS
  KillTarget
  WaitpidNeverBlocks
  BatchLive
