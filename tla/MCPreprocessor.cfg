SPECIFICATION Spec
CONSTANTS
    Lengths = {0, 1, 2, 6, 7, 8, 9}
    Inputs <- MCInputs
    Channels <- MCChannels
    SensorMins <- MCSensorMins
    Target = 5
    Unit = 141120
INVARIANTS
    AboveSensorMin
    SmoothedIsLeastSquares
    ResampledIsLinear
    StraightSignalsKept
