\* Uploads of one or two blocks; two documents that replace each other and one
\* that would not apply; two NVS faults per operation, enough for a commit and its
\* restoration to fail together.
CONSTANTS
    Docs = {"doc1", "doc2", "refused"}
    Parses <- MCParses
    Appliable <- MCAppliable
    Canonical <- MCCanonical
    Missing = Missing
    Torn = Torn
    Factory = Factory
    Blocks = {"x", "y"}
    MaxLength = 2
    Timeout = 2
    RestartWait = 1
    MaxFaults = 2
SPECIFICATION FairSpec
INVARIANTS
    StoresOnlyThisUpload
    PromiseIsBooted
PROPERTIES
    SelectionSpec
    PendingRestartHappens
    TransferEnds
