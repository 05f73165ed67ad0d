CONSTANTS
    Operations <- AllOperations
    MaxLosses = 1
SPECIFICATION Spec
INVARIANTS AllOrNothing
