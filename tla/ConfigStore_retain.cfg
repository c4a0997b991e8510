\* One fault: the call that moves the marker reports a failure and moved it.
CONSTANTS
    Docs = {d1, d2}
    Missing = Missing
    Torn = Torn
    Factory = Factory
    MaxFaults = 1
SPECIFICATION StoreSpec
INVARIANTS
    FailureRetainsPrevious
