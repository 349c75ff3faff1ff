CONSTANTS
  a = a
  one = one
  here = here
  elsewhere = elsewhere
  usr = usr
  plan = plan
  applied = applied
  tx = tx
  e1 = e1
  e2 = e2
  Names = {a}
  Targets = {here, elsewhere}
  Paths = {usr}
  Controls = {one}
  Plans = {plan}
  Applications = {applied}
  Transactions = {tx}
  Packages <- MCPackages
  None = None
  Evidence <- MCEvidence
  EvidenceOrder <- MCEvidenceOrder
  NameOrder <- MCNameOrder
  MaxRecord = 17
  MaxCount = 100
  TokenBytes = 4
  Cases <- MCCases
SPECIFICATION Spec
INVARIANTS
  DecoderTypeOK
  OnlyIssuableAccepted
  RoundTrip
  MisfiledIsNamed
