CONSTANTS
    IvlOptions <- MCIvlOptionsLowMax
    MaxConnects = 3
SPECIFICATION Spec
INVARIANT RetryWithinBounds
