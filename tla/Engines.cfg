CONSTANTS
  c1 = c1  c2 = c2  s1 = s1  s2 = s2  user = user  tester = tester  d1 = d1  d2 = d2  p1 = p1
   None = None
  Task = {c1, c2}  Project = {s1, s2}  Nobody = None  MaxCommands = 3  MaxConnections = 2
SPECIFICATION SpecEngines
SYMMETRY Symmetry
INVARIANTS
  PagesKeepTheirBrowser
  TrafficWithinBudget
  AnswerTellsThePlan
  OneJobPerPage
  JobsStayInScope
  ChangesStayInTheirProject
  ChangesAreMadeUnderTheLock
  QuietServiceIsTidy
  ArchivesAreWhole
PROPERTIES
  FirstLoginResumesAfterSave
  CooldownOutlivesTheProcess
  TestsBelongToTheirConfiguration
CHECK_DEADLOCK FALSE
