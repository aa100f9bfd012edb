\* Taps 249, 252 and 253, two frequencies, a queue of two, five writes, a reset.
CONSTANTS
    Voltages = {3500, 4000, 4200}
    Frequencies = {113, 200}
    PowerOnTap = 127
    QueueDepth = 2
    MaxWrites = 5
    MaxResets = 1
SPECIFICATION Spec
INVARIANTS
    TypeOK
    MotorFollowsHost
PROPERTIES
    RampedUnderLoad
CHECK_DEADLOCK FALSE
