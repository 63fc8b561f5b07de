\* y^2 = x^3 - 3x + 1 over F_5, order 7: a = p - 3, n > p, and a point with x = 0
SPECIFICATION Spec
CONSTANTS
  BYTE_BITS = 2
  ELEM_BYTES = 2
  T_BYTES = 2
  SLICE_BYTES = 8
  SCALAR_BLIND_BYTES = 1
  P = 5
  A = 2
  B = 1
  N = 7
  GX = 1
  GY = 2
  Calls <- MCCalls
  LambdaDraws <- MCLambdaDraws
  RDraws <- MCRDraws
  FAULTS = TRUE
  None = None
INVARIANTS
  TypeOK
  ReleasedSignaturesVerify
  WithheldSignaturesAreErased
  SignsTheTextbookPair
PROPERTY
  ImplementsSigner
