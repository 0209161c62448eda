\* main.cc's configuration path with a hopping band narrower than one
\* 20 MHz medium window and no prohibited range: ftg accepts an empty RF
\* table and main.cc then calls makeSeq with FH_SEQ_RESTART_ALG_A.
\* A constructor may exit the process, after which nothing happens.
CHECK_DEADLOCK FALSE
CONSTANTS
    CmdLines <- MCOneCmdLine
    ConfigFiles <- MCNoRangeFiles
    NoObject = NoObject
    FreqMins = {400}
    FreqMaxs = {410, 430}
    Separations = {20}
    WindowSmalls = {5}
    WindowMedium = 20
    UIntWidth = 16
    Dwells = {200000}
    Tunes = {1400}
    U4Sizes = {40}
    Algorithms <- MCAlgA
SPECIFICATION Spec
PROPERTY
    ReachesEpochLoop
