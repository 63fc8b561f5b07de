\* the sizes of the code, and a curve of the width of P-521
SPECIFICATION Spec
CONSTANTS
  MAX_ELEM = 48
  MAX_QLEN_BYTES = 66
  MAX_HLEN = 64
  SCALAR_BLIND_BYTES = 8
  Calls <- P521Calls
INVARIANT
  NeverPanics
