CONSTANTS
  a = a
  b = b
  one = one
  two = two
  here = here
  elsewhere = elsewhere
  usr = usr
  plan = plan
  applied = applied
  tx = tx
  Names = {a, b}
  Targets = {here, elsewhere}
  Paths = {usr}
  Controls = {one, two}
  Plans <- MCDigests
  Applications <- MCDigests
  Transactions <- MCDigests
  Packages <- MCPackages
  None = None
  Evidence = {}
  EvidenceOrder <- MCEvidenceOrder
  NameOrder <- MCNameOrder
  MaxRecord = 24
  MaxCount = 1
  TokenBytes = 4
  Cases <- MCCases
SPECIFICATION Spec
INVARIANT
  EncodedIsDecodable
