CONSTANTS
    MaxLen = 6
    Inputs <- SomeHashes
SPECIFICATION Spec
INVARIANTS TypeOK EncodesEveryBit PanicsOnlyIfEmpty
