\* The first mobile (node 2) of three nodes, one pass over its FDD table:
\* the data frame of slot 7 against the packets the tap thread stored.
CONSTANTS
    N = 3
    node_id = 2
    node_is_basestation = FALSE
    TaskTable <- Mobile1FddTable
    MaxEpochs = 1
    MaxPackets = 2
    MaxRx = 1
    MaxRxFrames = 1
    heartbeat_policy = "POLICY_A"
    heartbeat_activity = "PER_SCHEDULE"
    MaxSessionOpp = 2
SPECIFICATION Spec
INVARIANT
    DataFrameIsStoredPacket
