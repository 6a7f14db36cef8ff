CONSTANTS
    PerTree = 1
    Threshold = 1
    Horizon = 3
    Slots = 2
    Changes = {"remove", "admit"}
    MaxEpoch = 2
    MaxLag = 1
    MaxFaults = 2
SPECIFICATION Spec
INVARIANTS CarriedAreApplied SignerFollowsSeat
PROPERTIES LowSeatRotates
