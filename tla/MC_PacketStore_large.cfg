\* Delivery over reliable links with tap writes that succeed: packets of
\* one frame (2 units) and of two frames (3 units, frame_size 2).
CONSTANTS
    N = 3
    FrameSize = 2
    PacketSizes = {2, 3}
    MaxPackets <- MCMaxPackets
    WriteResults = {TRUE}
    Lossy = FALSE
    NoFrame = NoFrame
    NoData = NoData
SPECIFICATION Spec
PROPERTY PacketsDelivered
