SPECIFICATION Spec
CONSTANTS
  None = None
  MaxItems = 3
  Attrs <- MCAttrs
  IdAttrs <- MCIdAttrs
  Values <- MCValues
  Blank <- MCBlank
  Norm <- MCNorm
  Items <- MCItems
  Inputs <- MCInputs
INVARIANTS
  TypeOK
  SeenMirrorsMerged
  FirstUsableWins
  FirstSeenOrder
  LoopComputesMergeStructured
PROPERTIES
  ImplementsKeyedUnion
