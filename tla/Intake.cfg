SPECIFICATION Spec

CONSTANTS
  None = None
  Scalar = Scalar
  NoDate = 0
  Today = 2025
  Texts <- MCTexts
  Strip <- MCStrip
  Lower <- MCLower
  Clean <- MCClean
  KeyPart <- MCKeyPart
  Pieces <- MCPieces
  TitleCase <- MCTitleCase
  Phone <- MCPhone
  Aliases <- MCAliases
  DateOf <- MCDateOf
  Grades = {Scalar, "2019"}
  Mailbox <- MCMailbox
  Url <- MCUrl
  EmailShaped = {"A@x.io", "a@x.io"}
  WebUrls = {"http://x/"}
  ValidPhones = {"555", "+1555"}
  ProperIds = {"E-1"}
  ModelFields = {"skills", "contact"}
  Overlong = {"long"}
  TooLong = {"long"}
  Confusable = {"Homoglyph"}
  MaxItems <- MCMaxItems
  Confidences <- MCConfidences
  Contents <- MCContents

INVARIANTS
  TypeOK
  RefusalsAreParserErrors
  NothingSkipped
  NormalizationIsIdempotent
  DefenceNeverFires
  DuplicatesAreFlagged
