SPECIFICATION Spec
CONSTANTS
  None = None
  ATS = ATS
  RESUME = RESUME
  n1 = n1
  n2 = n2
  g1 = g1
  g2 = g2
  FieldOrder <- MCFieldOrder
  Kind <- MCKind
  Required <- MCRequired
  NameKeyed <- MCNameKeyed
  MaxLength <- MCMaxLength
  Attrs <- MCAttrs
  Blank <- MCBlank
  Norm <- MCNorm
  CaseFold <- MCCaseFold
  Batches <- MCBatches
  Policies <- MCPolicies
INVARIANTS
  ReportDescribesGolden
