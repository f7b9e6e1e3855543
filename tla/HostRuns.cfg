CONSTANTS
  Argv <- UpToThree
  Rounds = 10
  MaxLines = 4
SPECIFICATION Spec
INVARIANTS TypeOK ReportsTruth FailuresAreReported CleanExitFreesAll LinesAreCounted
PROPERTIES Ends
