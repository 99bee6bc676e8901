CONSTANTS
  t1 = t1
  t2 = t2
  t3 = t3
  Threads <- MCThreads
  MaxCalls = 2
SPECIFICATION Spec
SYMMETRY ThreadSymmetry
INVARIANT TypeOK
INVARIANT GivenBackOnce
INVARIANT NothingLeftBehind
INVARIANT SealedUnlessClosed
INVARIANT NoLegacyFallback
INVARIANT CrashOnlyWhenOverlapped
