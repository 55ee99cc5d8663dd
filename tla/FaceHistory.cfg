CONSTANTS
  Slot = {s1, s2}
  MIN_LIST_SIZE = 2
  MAX_THREAD_HISTORY_SIZE = 2
  PRUNE_FACES_INTERVAL = 2
  MIN_FRAMES_FOR_VIDEO = 2
  MAX_JPG_IMAGES_SAVED_PER_THREAD = 1
  MaxFrames = 5
  StallBound = 1
SPECIFICATION Spec
SYMMETRY Symmetry
INVARIANTS
  TypeOK
  RequiredFramesKept
  SaverIteratorsValid
  HistoryFloor
  OwnershipExclusive
PROPERTIES
  RetentionSpec
  ThreadsSpec
