CONSTANTS
    IvlOptions <- MCIvlOptions
    MaxConnects = 3
SPECIFICATION Spec
INVARIANT InProgressReleased
