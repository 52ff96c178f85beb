\* Up to three tests, scored by the manifest or sharing 100; numbers at both ends.
SPECIFICATION Spec
CONSTANTS
  FileNumbers = {0, 1, 2, 999, 1000}
  Marks = {60}
  IntMax = 120
  RunnerStatuses = {"Completed", "UserTimeLimit", "TotalTimeLimit", "MemoryLimit", "StdoutLimit", "Error"}
  NoScore = NoScore
INVARIANT TypeOK
INVARIANT NeverThrown
INVARIANT CodeNamesFirstFailure
INVARIANT SecondChance
INVARIANT RunsWhatCounts
INVARIANT HundredIsEverything
