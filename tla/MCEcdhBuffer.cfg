\* The curve of MCEcdh: what an out buffer of the wrong length keeps
SPECIFICATION TaintSpec
CONSTANTS
  BYTE_BITS = 2
  ELEM_BYTES = 2
  T_BYTES = 2
  SLICE_BYTES = 8
  SCALAR_BLIND_BYTES = 2
  P = 7
  A = 4
  B = 6
  N = 11
  GX = 1
  GY = 2
  Calls <- MCCalls
INVARIANTS
  EveryFailureLeavesZero
