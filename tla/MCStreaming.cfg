SPECIFICATION StreamSpec
CONSTANTS
  None = None
  i1 = i1
  i2 = i2
  k1 = k1
  k2 = k2
  m1 = m1
  m2 = m2
  r1 = r1
  r2 = r2
  s1 = s1
  g1 = g1
  Ids <- MCIds
  Requests <- MCRequests
INVARIANTS
  OneRecordPerCall
  ResponsesCallsMatch
  ChatCallsMatch
  
  
  ImagesAreLatest
PROPERTIES
  IsAnswerStream
CHECK_DEADLOCK FALSE
