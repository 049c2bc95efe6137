CONSTANTS
    MaxTurns = 2
    MaxSteps = 1
    MaxCalls = 2
    MaxMishaps = 3
SPECIFICATION TelemetrySpec
INVARIANTS
    SpansAreClosed
    SpansTellTheirOwn
CHECK_DEADLOCK FALSE
