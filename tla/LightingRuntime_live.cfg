\* One publisher (the action engine serialises its publications) and a driver
\* that fails one write; the invariants are proved for any number of both.
CONSTANTS
    Publishers = {p1}
    Calls = {"restart"}
    MaxFaults = 1
SPECIFICATION FairSpec
INVARIANTS
    RestartConfirmedBlack
    DarkUntilFirstCommand
PROPERTIES
    LastingStallGoesDark
    RestartCompletes
