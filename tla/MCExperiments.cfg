SPECIFICATION FairSpec
VIEW View
CONSTANTS
  MaxBoards = 2
  Clients = {c1}
  InactivityTicks = 2
  Levels = 2
  MaxCount = 1
INVARIANTS
  TypeOK
  AnswersAreRecent
  MetricsBelongToRun
  ExportsAgree
PROPERTIES
  NoAnswerFromThePast
  ExperimentEnds
