\* Two publishers inside the gate at once, a driver that never fails.
CONSTANTS
    Publishers = {p1, p2}
    Calls = {"fail_off", "restart"}
    MaxFaults = 0
SYMMETRY PublisherSymmetry
SPECIFICATION Spec
INVARIANTS
    OffOrderHolds
    StallStaysDark
