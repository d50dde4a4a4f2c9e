CONSTANTS
    LENGTH = 22
    SHORT_LENGTH = 19
    Truncated <- MCTruncated
    Profiled <- MCProfiled
SPECIFICATION Spec
INVARIANT ReturnsFound
INVARIANT ScheduleSound
INVARIANT ContextsApart
INVARIANT RunKept
INVARIANT NoThrow
PROPERTY Ends
