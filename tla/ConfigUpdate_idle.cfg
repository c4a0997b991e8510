CONSTANTS
    Docs = {"doc1", "doc2", "refused"}
    Parses <- MCParses
    Appliable <- MCAppliable
    Canonical <- MCCanonical
    Missing = Missing
    Torn = Torn
    Factory = Factory
    Blocks = {"x", "y"}
    MaxLength = 2
    Timeout = 2
    RestartWait = 1
    MaxFaults = 0
SPECIFICATION Spec
INVARIANTS
    IdleTransferDiscardedOnTime
