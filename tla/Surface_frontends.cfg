SPECIFICATION Spec
CONSTANTS
  MaxCommands = 3
  MaxMoves = 3
  Width = 6
  Height = 5
  MaxSize = 2
  Gaps = {0, 1}
INVARIANTS
  HintIsCurrent
  ClicksDoNotGoBack
  PrintedWasRun
  HintIsPlacedWell
CHECK_DEADLOCK FALSE
