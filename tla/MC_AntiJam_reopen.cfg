\* Node 1, any throughput outcome: where does a closed hole reopen?
CONSTANTS
    NodeIds = {1}
    NoJammer = NoJammer
    Jammer = NoJammer
    Adversarial = TRUE
    MaxLosses = 0
SPECIFICATION Spec
PROPERTIES
    HoleReopensWhereItWorked
