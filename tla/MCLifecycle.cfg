SPECIFICATION LifeFairSpec
CONSTANTS
  Lines <- MCLines
INVARIANTS
  AllLinesOrNone
  LeaksEndWithTheProcess
PROPERTIES
  PollingResumes
