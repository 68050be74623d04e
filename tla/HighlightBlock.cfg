\* Every text of up to three pieces in each language, and longer ones.
SPECIFICATION Spec
CONSTANTS
  Modes <- ModeTable
  Languages <- Registered
  aliases <- Aliases
  Blocks <- MCBlocks
  CallBound = 1
\* A page whose events have come, and whose scripts are done, rests.
CHECK_DEADLOCK FALSE
INVARIANTS
  TextKept
  SpansNested
  BestDetected
