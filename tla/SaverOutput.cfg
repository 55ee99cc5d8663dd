CONSTANTS
  Saver = {c1, c2}
  SAMPLE_TIME_EVERY_X_FRAMES = 2
  INITIAL_FPS <- MCInitialFps
  FPS_SPEEDUP_FACTOR <- MCSpeedup
  Tick = 2
  MaxTime = 6
  Windows <- MCWindows
SPECIFICATION Spec
SYMMETRY Symmetry
INVARIANTS
  OwnNamesDistinct
  RegisteredFilesExist
  RequestHasAddress
  RateMeasured
