\* the sizes of the code
SPECIFICATION Spec
CONSTANTS
  MAX_ELEM = 48
  MAX_QLEN_BYTES = 66
  MAX_HLEN = 64
  SCALAR_BLIND_BYTES = 8
  Calls <- MCCalls
INVARIANT
  OnlyTheWideBlindedNonceOverflows
