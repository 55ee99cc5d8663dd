CONSTANTS
  Slot = {s1}
  MIN_LIST_SIZE = 2
  MAX_THREAD_HISTORY_SIZE = 2
  PRUNE_FACES_INTERVAL = 2
  MIN_FRAMES_FOR_VIDEO = 2
  MAX_JPG_IMAGES_SAVED_PER_THREAD = 1
  MaxFrames = 4
  StallBound = 1
  PLAYBACK_NAPS = 2
SPECIFICATION PlaySpec
INVARIANTS
  RectanglesPlayed
