\* Two Unblinded keys, used again and again, on a backend wider than the field
SPECIFICATION Spec
CONSTANTS
  BYTE_BITS = 2
  ELEM_BYTES = 2
  T_BYTES = 3
  SLICE_BYTES = 12
  SCALAR_BLIND_BYTES = 1
  P = 7
  A = 4
  B = 6
  N = 11
  GX = 1
  GY = 2
  Threads = {t1, t2}
  Keys = {k1, k2}
  BLIND = FALSE
  ScalarDraws <- MCScalars
  LambdaDraws = {}
  RDraws = {}
  Garbage <- MCGarbage
  MaxEncaps = 1
  None = None
INVARIANTS
  SecretsAgree
  RefusalsAreJust
