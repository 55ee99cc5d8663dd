CONSTANTS
  Position = {0, 2, 5}
  Size = {1, 3, 6}
  FrameIds <- MCFrameIds
  FrameSize = 6
SPECIFICATION Spec
INVARIANTS
  EveryFrameHasAFace
  InterpolatedBetween
  SmoothedInRange
  RightEdgeInFrame
