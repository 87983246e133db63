SPECIFICATION Spec
CONSTANTS
  fA = fA fB = fB fC = fC s1 = s1 s2 = s2 r1 = r1 r2 = r2
  Flows = {fA, fB, fC}
  RegisterOf <- Collide
  Timeout = 1
  MinBackoff = 2
  MaxBackoff = 3
  Modulus = 8
  Latency = 1
  Slots = {s1, s2}
  Idle = Idle
  MaxTime = 10
INVARIANT TypeOK
INVARIANT OneFlowletStart
PROPERTY RequestsSpaced
PROPERTY RequestsBetweenFlowlets
PROPERTY LongPauseAsks
CHECK_DEADLOCK FALSE
