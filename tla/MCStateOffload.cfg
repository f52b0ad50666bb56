SPECIFICATION Spec
CONSTANTS
    Names = {a, b}
    MaxSteps = 2
    None = None
SYMMETRY Symmetry
CHECK_DEADLOCK FALSE
PROPERTIES
    StepIsAtomic
    PhaseIsEarned
