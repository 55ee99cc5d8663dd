CONSTANTS
  Visual = {v1, v2, v3}
  Client = {c1, c2}
  Requests <- MCRequests
  Uploads <- MCUploads
  DEFAULT_VISUALS_AMMOUNT = 2
  MaxTime = 6
SPECIFICATION Spec
SYMMETRY Symmetry
INVARIANTS
  RotationFair
