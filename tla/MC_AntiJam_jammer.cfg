\* Node 1 against a jammer that stays on subcarrier 100, with lost bursts.
CONSTANTS
    NodeIds = {1}
    NoJammer = NoJammer
    Jammer <- MCJammer
    Adversarial = FALSE
    MaxLosses = 2
SPECIFICATION Spec
PROPERTIES
    AllocationsEventuallyAgree
    SweepEvadesJammer
