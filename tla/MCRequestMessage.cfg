SPECIFICATION Spec
CONSTANTS
  Token <- MCToken
  Messages <- MCMessages
  Decimal <- MCDecimal
  Hex <- MCHex
  MaxSize = 3
  SizeMax = 65536
  Pieces = {1}
  MaxRepeats = 1
INVARIANTS
  TypeOK
  
  
  
 
CHECK_DEADLOCK FALSE
