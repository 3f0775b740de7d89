SPECIFICATION FairSpec
CONSTANTS
    a = a
    Tasks = {a, b}
    Idle = Idle
    Sleeps <- AllSleeps
    Other <- OtherPolicy
    Policies <- ThreePolicies
    Priority <- Slices
INVARIANTS
    RunqueueExact
    RealtimeFirst
    TimeoutArmed
PROPERTY RunnableRuns
