CONSTANTS
    QueueCapacity = 1
    WindowLength = 2
    MaxSamples = 12
    Stride = 1

SPECIFICATION AppSpec

INVARIANTS
    EngineLoaded
