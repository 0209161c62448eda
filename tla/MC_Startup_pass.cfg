\* The configuration is chosen once; any constructor may exit the
\* process (exit(EXIT_FAILURE)), after which nothing happens.
CHECK_DEADLOCK FALSE
CONSTANTS
    CmdLines <- MCCmdLines
    ConfigFiles <- MCConfigFiles
    NoObject = NoObject
    FreqMins = {400}
    FreqMaxs = {440, 500}
    Separations = {20, 40}
    WindowSmalls = {3, 5, 10}
    WindowMedium = 20
    UIntWidth = 16
    Dwells = {17500, 200000, 498800}
    Tunes = {1400}
    U4Sizes = {5, 10, 40}
    Algorithms <- MCAlgorithms
SPECIFICATION Spec
INVARIANTS
    TypeOK
    RfWindowsClearOfProhibited
    SeqIndicesInRange
    HopsCoverAllPairs
    CommandLineOverrides
PROPERTIES
    ReachesEpochLoop
