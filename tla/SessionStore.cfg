CONSTANTS
  First = s1
  Second = s2
  Tab = t1
  OtherTab = t2
  Sessions = {s1, s2}
  Tabs = {t1, t2}
  Regions = {kv, johor}
  Default = kv
  Choices = {10}
  DefaultSecs = 10
  TTL = 2
  MaxRestarts = 1
SPECIFICATION MCSpec
INVARIANTS IInv LiveCount ConnectedIsPolled SelectionKept SelectionSurvives FileIsCurrent
PROPERTIES AbandonedIsCleared
