SPECIFICATION Spec
CONSTANTS
  LineSize = 2
  DescrSize = 1
  DateSize = 1
  MfdSupport = "mfd2"
  bematech_st3_msgs <- St3Names
  Codes = {3, 124}
  Requests <- SmallRequests
  IgnoreLowPaper = FALSE
  Refusals = TRUE
  LostAnswers = TRUE
INVARIANTS
  TypeOK
  OkMeansDone
  ErrorMeansUndone
  ErrorIsTheCalls
  LastReductionIsTheLast
  ReportStaysOpenOnFaults
  PrintsTheMessage
