\* Whether a validation that allows no side effects may have some.
SPECIFICATION Spec
CHECK_DEADLOCK FALSE
INVARIANT
  NoSideEffects
