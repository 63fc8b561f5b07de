\* y^2 = x^3 - 3x + 10 over F_11, order 7: a = p - 3 as on P-256 and P-384, n < p, n not octet-aligned, a backend wider than the field
SPECIFICATION Spec
CONSTANTS
  BYTE_BITS = 2
  ELEM_BYTES = 2
  T_BYTES = 3
  SLICE_BYTES = 12
  P = 11
  A = 8
  B = 10
  N = 7
  GX = 2
  GY = 1
  Requests <- MCRequests
INVARIANTS
  TypeOK
  AccumulatorIsPrefix
  AcceptsExactlySignatures
