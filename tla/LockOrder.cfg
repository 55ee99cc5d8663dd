CONSTANTS
  Saver = {s1, s2}
SPECIFICATION FairSpec
INVARIANTS
  TypeOK
  MutualExclusion
  OneLockAtATime
  RestsUnlocked
PROPERTIES
  WaitersEnter
