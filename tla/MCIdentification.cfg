CONSTANTS
  None = None
  MaxI64 = 8388607
  Width16 = 1
  Width32 = 2
  Width64 = 3
  MagicBytes <- MCMagic
  Values <- MCValues
  DigestSize = 2
  AllDigests <- MCDigests
  Characters <- MCCharacters
SPECIFICATION Spec
INVARIANTS
  IdentificationTypeOK
  RecordNamesValue
  TextNamesDigest
CHECK_DEADLOCK FALSE
