SPECIFICATION Spec
CONSTANTS
    N = 3
    Needs <- OnTableOf001
    Runners = {r1, r2}
PROPERTIES
    PendingCanBeApplied
