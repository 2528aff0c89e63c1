SPECIFICATION Spec
CONSTANTS
  m1 = m1
  m2 = m2
  Proc = {m1, m2}
  MaxActs <- Acts
  Fact = {"f", "g"}
  Session = {"parent", "child"}
  Files = 2
  Rebuilder = {1, 2}
  Server = 1
  MaxEdits = 2
  MaxRebuilds = 2
  Parent = "parent"
  Shared = {"project", "user"}
  Personal = {"user"}
  Window = 1
  MaxRefresh = 1
  MaxTurns = 2
  Candidate = {1, 2, 3}
  MaxFacts = 3
  MaxTokens = 8
  Slack = 1
  MaxText = 2
  Pointer = {1, 4}
  MaxSection = 1
  Transcript = {1, 2}
  Short <- ShortNames
  Secret <- SecondIsSecret
  MaxRecords = 2
  Ended = {"s1", "s2", "s3"}
  Threshold = 2
  Cap = 2
  MaxRuns = 3
  BatchSize = 1
  MaxQueue = 2
  MaxEvents = 3
  Unsafe = {2, 3}
  MaxCommits = 2
  MaxRounds = 2
  MaxAttempts = 2
  MaxFiles = 5
  Logged = {"s1"}
  Turn = {"payload", "unsafe"}
  Binary = {"payload"}
  Unscannable = {"unsafe"}
  NoFile = NoFile
  TornFile = TornFile
  Overlap = TRUE
  MaxCrashes = 0
  Model = {m1, m2}
  Version <- Contents
  Rotation <- OneProvider
  Registered = {"groq"}
SYMMETRY Alike
CONSTRAINT Calm
INVARIANTS
  TypesHold
  SearchIsRight
  InjectionsAddUp
  CapturesAreWhole
  DreamsWhenDue
  ReportsArriveOnce
  PushesAreSafe
  SetUpIsShared
  RefusalHolds
  ReviewsAreFair
CHECK_DEADLOCK FALSE
