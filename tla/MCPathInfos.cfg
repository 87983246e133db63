SPECIFICATION Spec
CONSTANTS
  Size = 3
  Weights = {1, 2}
  Times = {0, 1, 2}
  None = None
INVARIANT TypeOK
INVARIANT LeastSquares
PROPERTY IsSlidingWindow
