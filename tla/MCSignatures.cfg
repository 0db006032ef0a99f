SPECIFICATION Spec
CONSTANTS
    MaxOps = 2
    MaxScOps = 2
    BaseScalars <- MCBaseScalars
    Scalars <- MCScalars
    Encodings <- MCEncodings
    Seeds = {1, 2, 3, 4}
    Messages = {1, 2}
CHECK_DEADLOCK FALSE
INVARIANTS
    RealSizeExact
    SmallCurveExact
