SPECIFICATION Spec
CONSTANTS
  None = None
  a = a
  b = b
  Scale = 10
  Bonus = 1
  Penalty = 2
  ScoredFields <- MCScoredFields
  RecordedFields <- MCRecordedFields
  Parent <- MCParent
  SourceWeight <- MCSourceWeight
  FieldWeight <- MCFieldWeight
  Orders <- MCOrders
  Merges <- MCMerges
INVARIANTS
  TypeOK
  TraceExplainsScores
  OverallWithinScores
  PresentFieldsDecide
  ConflictIsPenalised
  NeverRewardedAndPenalised
