SPECIFICATION Spec

CONSTANTS
  None = None
  Line <- MCLine
  Resumes <- MCResumes
  DateLines = {"date", "date_plain", "date_split", "pipe_0", "pipe_1", "pipe_1_split", "pipe_2",
               "bullet_pipe", "backwards", "future", "unreadable", "degree_date"}
  BareDates = {"date"}
  BackwardDates = {"backwards"}
  FutureDates = {"future"}
  UnreadableDates = {"unreadable"}
  SplitLines = {"head_split", "date_split", "pipe_1_split", "backwards", "future", "unreadable"}
  BulletLines = {"bullet", "blank_bullet", "bullet_pipe"}
  BlankBullets = {"blank_bullet"}
  PipeLines = {"pipe_0", "pipe_1", "pipe_1_split", "pipe_2", "bullet_pipe"}
  Segments <- MCSegments
  ExperienceKinds = {"head", "head_split", "bullet", "blank_bullet", "date", "date_plain",
                     "date_split", "backwards", "future", "unreadable",
                     "pipe_0", "pipe_1", "pipe_1_split", "pipe_2", "bullet_pipe"}
  CommonExperience = {"head", "head_split", "bullet", "date", "date_plain", "date_split",
                      "pipe_2", "bullet_pipe"}
  GPALines = {"gpa"}
  FigureLines = {"figure"}
  DegreeLines = {"degree", "degree_date", "school_degree"}
  SchoolLines = {"school", "school_degree"}
  PlaceLines = {"place"}
  BlankLines = {"abbreviation"}
  EducationKinds = {"institution", "place", "abbreviation", "school", "school_degree", "degree",
                    "degree_date", "date", "backwards", "future", "unreadable", "gpa", "figure"}
  CommonEducation = {"institution", "place", "school", "degree", "date", "gpa"}
  StructuralKinds = {"full name", "contact", "place", "Skills", "Experience", "Work Experience",
                     "Professional Summary", "head", "date"}
  PlacedKinds = {"full name", "Work Experience", "head"}
  RepeatedKinds = {"Skills", "Projects", "a_b", "upper_a"}
  ProperLines = {"full name", "Work Experience", "Professional Summary"}
  Denylist = {"Experience", "Education", "Skills", "Languages", "Certifications", "Projects"}
  ContactLines = {"contact", "bad contact"}
  RefusedContacts = {"bad contact"}
  LocationLines = {"place"}
  HeaderOf <- MCHeaderOf
  Words <- MCWords
  Marked <- MCMarked
  Tokens <- MCTokens
  Lower <- MCLower
  Proficiencies = {"native"}
  MaxLength <- MCMaxLength
  MaxKinds = 3
  MaxCommon = 4

INVARIANTS
  TypeOK
  EntriesAreGrouped
  AttributesStayWithTheirEntry
  DegreesAreKept
  CandidateTellsTheResume
  SectionsReadAsTheyStand
  ListsTellTheSections
