SPECIFICATION OrderedSpec
CONSTANTS
  caller1 = caller1
  scan1 = scan1
  scan2 = scan2
  file1 = file1
  file2 = file2
  Callers = {caller1}
  Goroutines = {scan1, scan2}
  Files = {file1, file2}
  Length = 2
  IdleStaleAfter = 1
  MaxTime = 3
  MaxTurns = 2
INVARIANTS
  TypeOK
  OneScan
  AnswersAreRight
PROPERTIES
  AskingLeadsToAReading
