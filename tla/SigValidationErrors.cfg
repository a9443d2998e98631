\* Whether the errors of a validation reach the caller.
SPECIFICATION Spec
CHECK_DEADLOCK FALSE
INVARIANT
  ErrorsAreForwarded
