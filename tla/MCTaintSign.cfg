\* y^2 = x^3 + 7 over F_13, order 7: a = 0, n < p, and a point whose x is 0 mod n
SPECIFICATION TaintSpec
CONSTANTS
  BYTE_BITS = 2
  ELEM_BYTES = 2
  T_BYTES = 2
  SLICE_BYTES = 8
  SCALAR_BLIND_BYTES = 1
  P = 13
  A = 0
  B = 7
  N = 7
  GX = 8
  GY = 5
  Calls <- MCCalls
  LambdaDraws = {}
  RDraws = {}
  FAULTS = FALSE
  None = None
INVARIANTS
  SignsTheTextbookPair
  SecretsDoNotSteer
