SPECIFICATION Spec
CONSTANT Inputs <- CoveredInputs
INVARIANTS Sound Complete ThrowsOnlyWhenNotAllowed CallerUntouched
CHECK_DEADLOCK FALSE
