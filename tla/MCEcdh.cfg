\* y^2 = x^3 - 3x + 6 over F_7, order 11: a = p - 3, n > p, a scalar blinder as wide as the field
SPECIFICATION TaintSpec
CONSTANTS
  BYTE_BITS = 2
  ELEM_BYTES = 2
  T_BYTES = 2
  SLICE_BYTES = 8
  SCALAR_BLIND_BYTES = 2
  P = 7
  A = 4
  B = 6
  N = 11
  GX = 1
  GY = 2
  Calls <- MCCalls
INVARIANTS
  TypeOK
  LadderIsPrefix
  BlindedScalarIsExact
  ReleasesTheSharedX
  FailureLeavesZero
  SecretsDoNotSteer
