SPECIFICATION ServicesSpec
CONSTANTS
  x1 = x1
  x2 = x2
  y1 = y1
  y2 = y2
  m1 = m1
  m2 = m2
  PR = {1, 2}
  RepoOf <- OneRepo
  TypeOf <- OneType
  RecencyWeight <- Weights
  Area = {"cmd"}
  LeadTime <- LeadTimeOf
  MetricsRun = {x1, x2}
  Estimator = {1}
  MaxEstimates <- EstimatesOf
  MaxIterations = 2
  MaxFrames = 2
  Company = {y1, y2}
  ClientInvoice = {1}
  Push = {x1, x2}
  MaxGrants = 2
  MaxRotations = 1
  MaxExternal = 2
  MaxIssue = 3
  ProjectKeys <- KeysOfIssue
  ImportRequest = {x1, x2}
  PageSize = 1
  MaxPages = 2
  PreviewSample = 1
  MaxProject = 2
  Branch = {1, 2}
  Migrate = {x1, x2}
  MaxDay = 2
  MaxFiles = 2
  Email = {y1, y2}
  MaxLogin = 1
  Contributor = {x1, x2}
  Nobody = Nobody
  Kind <- CommitKinds
  DimWeight <- WeightOf
  MaxRows = 2
  Person = {x1, x2}
  Mail = {m1, m2}
  MaxHandle = 1
  NoOne = Nobody
  LastDay = 2
  CommitKind <- CommitsDrawn
  IssueKind <- IssuesDrawn
  MaxFacts = 2
  Committer = {y1, y2}
  Path = {"a", "b", "t"}
  TestPath = {"t"}
  Deep = {x1, x2}
  maxFilesPerFix = 1
  Shape <- Shapes
  MaxSha = 3
  OverlapSha = 2
  MaxLine = 2
SYMMETRY Alikes
CONSTRAINT Apart
CHECK_DEADLOCK FALSE
INVARIANTS CurveSound ChatSound StoredTokenLives ImportSound UpMeansApplied ContributionSound AnalyticsSound GitAnalysisSound
