\* A Blinded key shared by two threads, and two encapsulations against it
SPECIFICATION Spec
CONSTANTS
  BYTE_BITS = 2
  ELEM_BYTES = 2
  T_BYTES = 2
  SLICE_BYTES = 8
  SCALAR_BLIND_BYTES = 1
  P = 7
  A = 4
  B = 6
  N = 11
  GX = 1
  GY = 2
  Threads = {t1, t2}
  Keys = {k1}
  BLIND = TRUE
  ScalarDraws <- MCScalars
  LambdaDraws <- MCLambdas
  RDraws <- MCRs
  Garbage <- MCGarbage
  MaxEncaps = 2
  None = None
INVARIANTS
  TypeOK
  KeysAreWhole
  EncapsulationSucceeds
  SecretsAgree
  RefusalsAreJust
  IInv
  MaskUsedOnce
  SpentKeyYields
PROPERTIES
  KeysAreForGood
  CallsReturn
  KeepsPromise
