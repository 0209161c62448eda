\* The first mobile (node 2) of three nodes, one pass over its FDD table,
\* up to two packets from the tap, one received MAC frame and two
\* heartbeat opportunities.  Policy A: the heartbeat policy whose decision
\* reads the counters.
CONSTANTS
    N = 3
    node_id = 2
    node_is_basestation = FALSE
    TaskTable <- Mobile1FddTable
    MaxEpochs = 1
    MaxPackets = 1
    MaxRx = 1
    MaxRxFrames = 1
    heartbeat_policy = "POLICY_A"
    heartbeat_activity = "PER_SCHEDULE"
    MaxSessionOpp = 2
SPECIFICATION Spec
INVARIANTS
    TypeOK
    HeartbeatFramesCounted
    PolicyOperandsNonNegative
    BurstSendsSlotFrame
