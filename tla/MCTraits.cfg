\* y^2 = x^3 + 7 over F_13, order 7: n < p, and digests wider than n are cut
SPECIFICATION Spec
CONSTANTS
  BYTE_BITS = 2
  ELEM_BYTES = 2
  T_BYTES = 2
  SLICE_BYTES = 8
  SCALAR_BLIND_BYTES = 1
  P = 13
  A = 0
  B = 7
  N = 7
  GX = 8
  GY = 5
  Kinds = {"prehash", "randomized"}
  Secrets <- MCSecrets
  Digests <- MCDigests
  LambdaDraws <- MCLambdaDraws
  RDraws <- MCRDraws
  ForeignKeys <- MCForeignKeys
  Presented <- MCPresented
INVARIANTS
  KeypairHoldsThePoint
  AcceptsOnlyWholeSignatures
PROPERTY
  SignedIsAccepted
