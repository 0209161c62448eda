\* Safety of the packet path with lossy links and failing tap writes.
CONSTANTS
    N = 3
    FrameSize = 2
    PacketSizes = {2, 3}
    MaxPackets <- MCMaxPackets
    WriteResults = {TRUE, FALSE}
    Lossy = TRUE
    NoFrame = NoFrame
    NoData = NoData
SPECIFICATION Spec
INVARIANTS
    TypeOK
    WrittenIntact
