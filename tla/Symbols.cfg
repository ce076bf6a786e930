SPECIFICATION Spec
CONSTANT Files <- MCFiles
INVARIANT TablesExact
INVARIANT RoundTrip
CHECK_DEADLOCK FALSE
