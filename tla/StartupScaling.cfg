SPECIFICATION Spec
CONSTANTS
    Unset = Unset
    NoFile = NoFile
    Inputs <- MCDeclared
INVARIANT ScalingInherited
CHECK_DEADLOCK FALSE
