SPECIFICATION Spec

CONSTANTS
  None = None
  Loaders = {builder, projection}
  Builder = builder
  Paths = {"engines.yaml", "rules.yaml"}
  Files = {f, g}
  Contents <- MCContents
  TextRank <- MCTextRank
  Minimum = "1.0"
  Current = "1.0"
  PathOf <- MCPathOf
  UsableFor <- MCUsableFor
  MaxEdits = 2

INVARIANTS
  TypeOK
  BuiltOfPresentFiles
PROPERTY
  LoadsAreCoherent
