\* A program that writes up to two bytes more than are captured.
SPECIFICATION FairSpec
CONSTANTS
  Stdout = Stdout
  Stderr = Stderr
  Streams = {Stdout, Stderr}
  Size <- SomeSizes
  PipeSize = 1
  InputSize = 2
  MaxWritten = 3
INVARIANT TypeOK
INVARIANT StatusIsTrue
PROPERTY EndsUnlessHeldUp
CHECK_DEADLOCK FALSE
