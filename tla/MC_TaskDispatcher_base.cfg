CONSTANTS
    TaskTable <- BasestationFhTable
    waveform_is_normal = FALSE
    MaxEpochs = 2
    MaxThreads = 6
SPECIFICATION Spec
INVARIANTS
    TypeOK
    BurstsJoinedBeforeNextSlot
