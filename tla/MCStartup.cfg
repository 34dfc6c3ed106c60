SPECIFICATION StartSpec
CONSTANTS
  Files <- MCFiles
  Number <- MCNumber
  Numeric = {"4242", "4243", "04243", "70000", "30", "100", "1000000", "0", "4294971538"}
  Ip <- MCIp
  Urls = {"/", "/b", "#py"}
  Readable = {"status.txt", "more.txt", "mime.txt", "error.html"}
  Executable = {"python"}
  Directories = {"docs/html"}
  Contents <- MCContents
  LocalIps <- MCLocalIps
  Decimal <- MCDecimal
  NetworkOrder <- MCNetworkOrder
  Foreign <- MCForeign
  Hosts = {"jiyun", "ean", "other"}
INVARIANTS
  NestingAgrees
  ServedAtOwnAddress
  NoBlockForgotten
PROPERTIES
  ParsedAsWritten
  StartsOrExits
CHECK_DEADLOCK FALSE
