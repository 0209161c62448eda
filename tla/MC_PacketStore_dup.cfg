\* Three mobiles whose first packets (id 0, one frame each) all go to the
\* basestation, over lossy links and tap writes that may fail.
CONSTANTS
    N = 4
    FrameSize = 2
    PacketSizes = {2}
    MaxPackets <- MCThreeMobiles
    WriteResults = {TRUE, FALSE}
    Lossy = TRUE
    NoFrame = NoFrame
    NoData = NoData
SPECIFICATION Spec
INVARIANT NoDuplicateWrite
