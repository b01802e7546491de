SPECIFICATION AccountsSpec
CONSTANTS
  x1 = x1
  x2 = x2
  x3 = x3
  y1 = y1
  y2 = y2
  Token = {x1, x2, x3}
  Family = {y1, y2}
  Request = {y1, y2}
  Writer = {x1, x2, x3}
  Ref = {y1}
  TopupCents = 2
  UsageCents = 1
  MaxRows = 3
  Creator = {x1, x2, x3}
  MaxAttempts = 3
  MaxNumber = 4
  Patcher = {y1, y2}
  Subtotal = 3
  Discounts <- Created
  Ask <- Asks
  Entry = {y1, y2}
  Approver = {x1, x2}
  Year = {1, 2}
  Days <- LeaveDays
  StartYear <- LeaveStart
  PushTo = {"google", "microsoft"}
  MaxEvents = 2
  Caller = {x1, x2}
  Installation = {y1, y2}
  GitUser = "ada"
  Hooked = {"gitstate"}
  MaxSecrets = 3
  MaxHooks = 2
  MaxItem = 4
  Apart = {2, 4}
  PageSize = 1
  RetryAttempts = 1
  Admin = {"p", "q"}
  Day = {"mon", "tue"}
  Drawn <- DrawnOn
  PullRequest = {1, 2}
  DrawnIssue = {1, 2}
  Deployment = {1}
  DemoRepo = {"web", "api"}
  Sha = {"a", "b", "c"}
  Window = {1, 2}
  Holder = {"ann"}
  LeaveYear = {1, 2}
  MaxSeeds = 2
  Channel = {y1}
  ChannelKind = {"slack", "email"}
  Subscriptions <- Asked
  Send = {x1, x2}
  FactsAtStart <- Facts
  MaxWork = 2
  AwayEntry = {1, 2}
  AwayBy <- LeaveBy
  AwayFrom <- LeaveFrom
  AwayTo <- LeaveTo
  WeekDays = 2
  StaleDays = 1
  EndOfTime = 4
  Target = {"https", "address"}
  MaxPreviews = 1
SYMMETRY Alikes
CONSTRAINT OneSource
CHECK_DEADLOCK FALSE
INVARIANTS OneLiveToken BalanceSound GivesUpOnlyBeaten MoneyCoherent LeaveSettled PlatformAgrees ListingComplete SeedSound NotificationsSound
PROPERTIES EndedStaysEnded
