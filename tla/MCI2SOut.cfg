CONSTANTS
    DMABUF_COUNT = 2
    SAMPLES = 2
    MaxSteps = 2
    MaxResets = 1
SPECIFICATION Spec
INVARIANTS StepsArrive
PROPERTIES StreamEnds
