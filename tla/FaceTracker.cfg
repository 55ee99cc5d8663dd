CONSTANTS
  Rect <- MCRects
  Scenes <- MCScenes
  DIST_THRESH = 3
  VERY_CLOSE_DIST_THRESH = 2
  MAX_ALLOWED_MISSED_COUNT = 4
  MAX_ALLOWED_CONSECUTIVE_MISSES = 2
  MIN_FACE_OCCURENCES_THRESH = 1
  MaxFrames = 12
SPECIFICATION Spec
INVARIANTS
  TypeOK
  OneThreadPerFace
  MatchWithinReach
  CountersConsistent
  SavedWereLost
  DrawnIsFresh
PROPERTIES
  ThreadsSpec
