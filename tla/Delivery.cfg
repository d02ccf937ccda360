SPECIFICATION Spec
CONSTANTS
  MaxCalls = 5
INVARIANTS TypeOK TargetIsWhole LastPackageKept BuildsOnLast OneCandidate CleanAfterSuccess
PROPERTIES ImplementsRegister
CHECK_DEADLOCK FALSE
