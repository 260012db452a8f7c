SPECIFICATION Spec
CONSTANTS
  None = None
  ATS = ATS
  RESUME = RESUME
  SourceOf <- MCSourceOf
  Parsable <- MCParsable
  Invalid <- MCInvalid
  Questionable <- MCQuestionable
  Unmergeable <- MCUnmergeable
  Conflicting <- MCConflicting
  Misfits <- MCMisfits
  Suffix <- MCSuffix
  Outputs <- MCOutputs
  Formats <- MCFormats
  External <- MCExternal
INVARIANTS
  OwnResultsValidate
