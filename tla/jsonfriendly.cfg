SPECIFICATION Spec
CONSTANTS
    Leaves <- MCLeavesAll
    Keys <- MCKeysSpecial
    MaxItems = 2
    MaxKeys = 2
    MaxDepth = 2
INVARIANT MinimalIdempotent
