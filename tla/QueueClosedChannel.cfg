CONSTANTS
    Messages = {m1, m2}
    Nobody = Nobody
    MaxFaults = 1
SPECIFICATION Spec
SYMMETRY Symmetry
INVARIANTS RetrySurvivesOneLoss
CHECK_DEADLOCK FALSE
