SPECIFICATION Spec
CONSTANTS
    Byte = 4
    MaxHeight = 6
    MaxEntries = 6
INVARIANT
    Sequential
