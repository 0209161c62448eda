\* Node 1 (the allocation sender) and a mobile other than node 1 (full-band
\* tests, no allocation bursts), any throughput outcome.  Bursts are always
\* delivered: node 2 sends none, so losses would only change the counter.
CONSTANTS
    NodeIds = {1, 2}
    NoJammer = NoJammer
    Jammer = NoJammer
    Adversarial = TRUE
    MaxLosses = 0
SPECIFICATION Spec
INVARIANTS
    TypeOK
    LeftEdgeInSweepRange
    MitigationFlagMatchesModem
    AllocationsAgree
