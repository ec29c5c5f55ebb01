SPECIFICATION Spec
CONSTANTS
    NumKeys = 2
    Cooldown = 2
    Callers = {c1, c2, c3}
INVARIANTS
    PoolTypeOK
    SleepCoversCooldown
PROPERTIES
    CooldownCutOnlyByLate429
    SleepersWake
