\* One derivation with every HMAC output; y^2 = x^3 - 3x + 15 over F_31, order 29
SPECIFICATION Spec
CONSTANTS
  BYTE_BITS = 2
  ELEM_BYTES = 3
  T_BYTES = 3
  SLICE_BYTES = 12
  P = 31
  A = 28
  B = 15
  N = 29
  GX = 3
  GY = 8
  MAX_HLEN = 4
  MaxCalls = 1
  MaxTries = 2
  Calls <- SingleCalls
  Outputs <- EveryOutput
INVARIANTS
  TypeOK
  FollowsTheRfc
  FirstGoodCandidate
