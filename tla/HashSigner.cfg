SPECIFICATION Spec
CONSTANTS
    Epochs = {0, 1}
    Capacity = 3
    Floors = {0, 2}
INVARIANTS NoLeafReuse ReleasedIsDurable
