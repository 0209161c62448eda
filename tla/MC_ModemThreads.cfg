\* Node 1 and the basestation of a u4 net: two epochs of node 1 (enough
\* for a hole opened then closed or resent), two basestation bursts, lossy
\* allocation frames.
CONSTANTS
    H1 = H1
    H2 = H2
    FullBand = FullBand
    Free = Free
    Holes <- MCHoles
    MaxEpochs = 2
    MaxBursts = 2
    Lossy = TRUE
SPECIFICATION Spec
INVARIANTS
    TypeOK
PROPERTIES
    ModemsRefineAccess
    ThreadsTerminate
