SPECIFICATION Spec
CONSTANTS
  ServerBlocks <- MCServerBlocks
  Address <- MCAddress
  Requests <- MCRequests
  FileExtension <- MCFileExtension
  FirstExtension <- MCFirstExtension
  FileAt <- MCFileAt
  InitialFiles <- MCInitialFiles
  Directories <- MCDirectories
  MimeTypes <- MCMimeTypes
  EmptyPages <- MCEmptyPages
  LowerCase <- MCLowerCase
  BadNames = {"X Y"}
  BadValues = {"NUL"}
  Outputs <- MCOutputs
  StatusMessages = {200, 301, 302, 400, 404, 405, 500, 501}
PROPERTY DeleteAnswered
CHECK_DEADLOCK FALSE
