SPECIFICATION Spec
CONSTANT Inputs <- DepartingInputs
INVARIANT Sound
CHECK_DEADLOCK FALSE
